---- MODULE Spec2Model ----
(***************************************************************************)
(* Model of the CrossFit routine assistant: the conversation orchestrator  *)
(* (rag/agent.py), the intent classifier and generator/editor              *)
(* (rag/generator.py), the retriever (rag/retriever.py) and the routine    *)
(* codec and ingest (scripts/ingest.py).                                   *)
(***************************************************************************)
EXTENDS Integers, Sequences, FiniteSets, TLC

VARIABLES
    estado,      \* session -> session state dict (agent.py crear_estado_inicial)
    coleccion,   \* documents of the ChromaDB collection "rutinas_crossfit"
    respuesta,   \* reply returned by the last procesar_mensaje call
    llamada,     \* record of the last operation: what was called and how it ended
    ultimo,      \* week_id -> content of the most recent upsert under that id
    entrada,     \* input of the last pure-function evaluation
    salida       \* result of the last pure-function evaluation

vars == <<estado, coleccion, respuesta, llamada, ultimo, entrada, salida>>

-----------------------------------------------------------------------------
(* Bounds of the model.                                                    *)

\* Maximum number of (user, assistant) exchanges kept in a session history.
MaxTurnos == 3

\* Maximum length, in characters, of the utterances given to the classifier.
MaxLargo == 5

-----------------------------------------------------------------------------
(* JSON values as Python sees them after json.loads: a scalar is tagged    *)
(* with its type, a dict is a record, a list is a tagged sequence.         *)

JNull == [null |-> TRUE]
JStr(s) == [str |-> s]
JInt(n) == [int |-> n]
JList(q) == [list |-> q]

\* Python truth value: None, "", 0, [] and {} are false.
Truthy(v) ==
    CASE "null" \in DOMAIN v -> FALSE
      [] "str" \in DOMAIN v -> v.str # ""
      [] "int" \in DOMAIN v -> v.int # 0
      [] "list" \in DOMAIN v -> v.list # <<>>
      [] OTHER -> DOMAIN v # {}

\* dict.get(k): None when the key is absent.
Get(d, k) == IF k \in DOMAIN d THEN d[k] ELSE JNull

\* dict.get(k, def): def only when the key is absent (a null value is kept).
GetD(d, k, def) == IF k \in DOMAIN d THEN d[k] ELSE def

\* str(v) as an f-string interpolates it.
Fmt(v) ==
    CASE "null" \in DOMAIN v -> "None"
      [] "str" \in DOMAIN v -> v.str
      [] "int" \in DOMAIN v -> ToString(v.int)
      [] OTHER -> "?"

EsDict(v) == DOMAIN v \cap {"null", "str", "int", "list"} = {}

-----------------------------------------------------------------------------
(* Text is a sequence of lines; a line is a sequence of string tokens      *)
(* (the literal pieces and the interpolated values of an f-string).        *)

RECURSIVE Flatten(_)
Flatten(ss) == IF ss = <<>> THEN <<>> ELSE Head(ss) \o Flatten(Tail(ss))

\* ", ".join(items) where every item is already a token sequence.
RECURSIVE JoinComa(_)
JoinComa(items) ==
    IF items = <<>> THEN <<>>
    ELSE IF Len(items) = 1 THEN Head(items)
    ELSE Head(items) \o <<", ">> \o JoinComa(Tail(items))

\* str.strip(): empty pieces at either end leave nothing behind.
RECURSIVE StripIzq(_)
StripIzq(t) == IF t # <<>> /\ Head(t) = "" THEN StripIzq(Tail(t)) ELSE t

RECURSIVE StripDer(_)
StripDer(t) ==
    IF t # <<>> /\ t[Len(t)] = "" THEN StripDer(SubSeq(t, 1, Len(t) - 1)) ELSE t

Strip(t) == StripDer(StripIzq(t))

\* str.upper() on the day names of the model.
Upper(s) ==
    CASE s = "Lunes" -> "LUNES"
      [] s = "Martes" -> "MARTES"
      [] OTHER -> s

\* The vocabulary of the model in lexicographic order (what sorted() compares).
Vocabulario == <<"clean", "core", "empuje", "hombros", "piernas", "sentadilla", "snatch">>

Rango(s) == CHOOSE i \in 1..Len(Vocabulario) : Vocabulario[i] = s

\* sorted(S) for a set of vocabulary strings.
RECURSIVE Sorted(_)
Sorted(S) ==
    IF S = {} THEN <<>>
    ELSE LET m == CHOOSE x \in S : \A y \in S : Rango(x) <= Rango(y)
         IN <<m>> \o Sorted(S \ {m})

Elementos(q) == {q[i] : i \in 1..Len(q)}

-----------------------------------------------------------------------------
(* Routine codec (scripts/ingest.py).                                      *)

\* f"{e['nombre']} {e.get('reps', '')}".strip()
EjercicioCorto(e) == Strip(<<Fmt(e.nombre), Fmt(GetD(e, "reps", JStr("")))>>)

ListaEjercicios(bloque) ==
    LET ejs == bloque.ejercicios.list
    IN JoinComa([i \in 1..Len(ejs) |-> EjercicioCorto(ejs[i])])

\* The "Core (...)" / "Accesorios (...)" line of a day, when the block has exercises.
LineaBloque(etiqueta, bloque) ==
    IF Truthy(bloque) /\ Truthy(Get(bloque, "ejercicios"))
    THEN << <<etiqueta, "(", Fmt(GetD(bloque, "rondas", JStr("?"))), "rondas):">>
            \o ListaEjercicios(bloque) >>
    ELSE <<>>

LineasBloquePrincipal(bp) ==
    IF ~Truthy(bp) THEN <<>>
    ELSE LET sets_reps == IF Truthy(Get(bp, "sets")) /\ Truthy(Get(bp, "reps"))
                          THEN <<Fmt(bp.sets), "x", Fmt(bp.reps)>>
                          ELSE <<"">>
         IN << Strip(<<Fmt(GetD(bp, "tipo", JStr("N/A"))), ":",
                       Fmt(GetD(bp, "movimiento", JStr("N/A")))>> \o sets_reps) >>
            \o (IF Truthy(Get(bp, "variante_principiante"))
                THEN << <<"Principiante:", Fmt(bp.variante_principiante)>> >>
                ELSE <<>>)

\* The display value of a WOD: duracion, then rondas, then time_cap.
DuracionStr(wod) ==
    IF Truthy(Get(wod, "duracion")) THEN <<Fmt(wod.duracion), "'">>
    ELSE IF Truthy(Get(wod, "rondas")) THEN <<Fmt(wod.rondas), "rounds">>
    ELSE IF Truthy(Get(wod, "time_cap")) THEN <<"TC", Fmt(wod.time_cap), "'">>
    ELSE <<"">>

LineaEjercicioWod(ej) ==
    Strip(<<"-", Fmt(ej.nombre), Fmt(GetD(ej, "reps", JStr("")))>>)
    \o (IF Truthy(Get(ej, "escala")) THEN <<"(escala:", Fmt(ej.escala), ")">> ELSE <<>>)

LineasWod(wod) ==
    IF ~Truthy(wod) THEN <<>>
    ELSE LET ejs == GetD(wod, "ejercicios", JList(<<>>)).list
         IN << Strip(<<"WOD", Fmt(wod.formato)>> \o DuracionStr(wod) \o <<":">>) >>
            \o [i \in 1..Len(ejs) |-> LineaEjercicioWod(ejs[i])]

LineasMetadata(meta) ==
    IF ~Truthy(meta) THEN <<>>
    ELSE LET grupos == GetD(meta, "grupos_musculares", JList(<<>>)).list
         IN << <<"Músculos:">> \o JoinComa([i \in 1..Len(grupos) |-> <<grupos[i]>>]) >>
            \o (IF Truthy(Get(meta, "movimientos_olimpicos"))
                THEN LET ol == meta.movimientos_olimpicos.list
                     IN << <<"Olímpicos:">> \o JoinComa([i \in 1..Len(ol) |-> <<ol[i]>>]) >>
                ELSE <<>>)
            \o << <<"Intensidad:", Fmt(GetD(meta, "intensidad_estimada", JStr("N/A")))>> >>
            \o (IF Truthy(Get(meta, "patron_movimiento_fuerza"))
                THEN << <<"Patrón:", Fmt(meta.patron_movimiento_fuerza)>> >>
                ELSE <<>>)

LineasDia(dia) ==
    << <<"\n", Upper(dia.dia.str), "-",
         IF Truthy(Get(dia, "tipo_bloque_principal"))
         THEN Fmt(dia.tipo_bloque_principal) ELSE "N/A">> >>
    \o LineaBloque("Core", Get(dia, "core"))
    \o LineasBloquePrincipal(Get(dia, "bloque_principal"))
    \o LineasWod(Get(dia, "wod"))
    \o LineaBloque("Accesorios", Get(dia, "accesorios"))
    \o LineasMetadata(Get(dia, "metadata"))

\* Whether a block's exercise list makes e['nombre'] raise KeyError.
EjerciciosSinNombre(bloque) ==
    /\ Truthy(bloque)
    /\ Truthy(Get(bloque, "ejercicios"))
    /\ \E e \in Elementos(bloque.ejercicios.list) : "nombre" \notin DOMAIN e

DiaTextoFalla(dia) ==
    \/ "dia" \notin DOMAIN dia
    \/ "str" \notin DOMAIN dia.dia
    \/ EjerciciosSinNombre(Get(dia, "core"))
    \/ EjerciciosSinNombre(Get(dia, "accesorios"))
    \/ /\ Truthy(Get(dia, "wod"))
       /\ \/ "formato" \notin DOMAIN dia.wod
          \/ /\ "ejercicios" \in DOMAIN dia.wod
             /\ \/ "list" \notin DOMAIN dia.wod.ejercicios
                \/ \E e \in Elementos(dia.wod.ejercicios.list) : "nombre" \notin DOMAIN e
    \/ /\ Truthy(Get(dia, "metadata"))
       /\ "list" \notin DOMAIN GetD(dia.metadata, "grupos_musculares", JList(<<>>))

\* json_a_texto_enriquecido raises (KeyError, AttributeError, TypeError).
TextoFalla(semana) ==
    \/ {"semana_id", "fecha_inicio", "dias"} \ DOMAIN semana # {}
    \/ "list" \notin DOMAIN semana.dias
    \/ \E d \in Elementos(semana.dias.list) : DiaTextoFalla(d)

json_a_texto_enriquecido(semana) ==
    << <<"Semana:", Fmt(semana.semana_id), "| Inicio:", Fmt(semana.fecha_inicio)>> >>
    \o Flatten([i \in 1..Len(semana.dias.list) |-> LineasDia(semana.dias.list[i])])

\* extraer_metadata_para_chroma raises (KeyError, AttributeError, TypeError).
MetadataFalla(semana) ==
    \/ {"semana_id", "fecha_inicio", "dias"} \ DOMAIN semana # {}
    \/ "list" \notin DOMAIN semana.dias
    \/ \E d \in Elementos(semana.dias.list) :
          \/ "metadata" \notin DOMAIN d
          \/ ~EsDict(d.metadata)
          \/ "list" \notin DOMAIN GetD(d.metadata, "movimientos_olimpicos", JList(<<>>))
          \/ "list" \notin DOMAIN GetD(d.metadata, "grupos_musculares", JList(<<>>))

\* The union over the days of a list-valued metadata field.
UnionDias(semana, campo) ==
    UNION {Elementos(GetD(d.metadata, campo, JList(<<>>)).list) :
              d \in Elementos(semana.dias.list)}

PatronesDias(semana) ==
    {d.metadata.patron_movimiento_fuerza.str :
        d \in {x \in Elementos(semana.dias.list) :
                  Truthy(Get(x.metadata, "patron_movimiento_fuerza"))}}

\* The join taken in descending order.
JoinOrdenInverso(S) ==
    LET q == Sorted(S) IN JoinComa([i \in 1..Len(q) |-> <<q[Len(q) + 1 - i]>>])

JoinSorted(S) == LET q == Sorted(S) IN JoinComa([i \in 1..Len(q) |-> <<q[i]>>])

extraer_metadata_para_chroma(semana) ==
    [semana_id |-> semana.semana_id,
     fecha_inicio |-> semana.fecha_inicio,
     movimientos_olimpicos |-> JoinSorted(UnionDias(semana, "movimientos_olimpicos")),
     patrones_fuerza |-> JoinSorted(PatronesDias(semana)),
     grupos_musculares |-> JoinSorted(UnionDias(semana, "grupos_musculares")),
     total_dias |-> Len(semana.dias.list)]

-----------------------------------------------------------------------------
(* The routines the language model and the processed files can hold.       *)

Ejercicio(nombre, reps) ==
    [nombre |-> JStr(nombre), reps |-> JStr(reps), escala |-> JNull]

DiaLunes(duracion) ==
    [dia |-> JStr("Lunes"),
     fecha |-> JStr("2026-11-09"),
     tipo_bloque_principal |-> JStr("FUERZA"),
     core |-> [rondas |-> JInt(3),
               ejercicios |-> JList(<<Ejercicio("Plancha", "30s")>>)],
     bloque_principal |-> [tipo |-> JStr("FUERZA"),
                           descripcion |-> JStr("Front Squat 5x4"),
                           movimiento |-> JStr("Front Squat"),
                           sets |-> JInt(5),
                           reps |-> JStr("4"),
                           variante_principiante |-> JStr("Goblet Squat")],
     wod |-> [formato |-> JStr("AMRAP"),
              duracion |-> duracion,
              rondas |-> JNull,
              time_cap |-> JNull,
              ejercicios |-> JList(<<Ejercicio("Burpees", "10")>>)],
     accesorios |-> [rondas |-> JInt(3),
                     ejercicios |-> JList(<<Ejercicio("Curl", "12")>>)],
     metadata |-> [grupos_musculares |-> JList(<<"piernas", "core">>),
                   movimientos_olimpicos |-> JList(<<>>),
                   intensidad_estimada |-> JStr("alta"),
                   patron_movimiento_fuerza |-> JStr("sentadilla")]]

DiaMartes ==
    [dia |-> JStr("Martes"),
     fecha |-> JStr("2026-11-10"),
     tipo_bloque_principal |-> JStr("OLY"),
     bloque_principal |-> [tipo |-> JStr("OLY"),
                           descripcion |-> JStr("Snatch"),
                           movimiento |-> JStr("Snatch")],
     wod |-> [formato |-> JStr("For Time"),
              duracion |-> JNull,
              rondas |-> JInt(5),
              time_cap |-> JInt(12),
              ejercicios |-> JList(<<Ejercicio("Snatch", "5")>>)],
     metadata |-> [grupos_musculares |-> JList(<<"hombros", "piernas">>),
                   movimientos_olimpicos |-> JList(<<"snatch", "clean">>),
                   intensidad_estimada |-> JStr("media")]]

\* A day as the model may return it without its metadata record.
DiaSinMetadata ==
    [dia |-> JStr("Lunes"),
     wod |-> [formato |-> JStr("EMOM"), duracion |-> JInt(10)]]

Semana(id, dias) ==
    [semana_id |-> JStr(id), fecha_inicio |-> JStr("2026-11-09"), dias |-> JList(dias)]

RutinaA == Semana("semana_2026_W46", <<DiaLunes(JInt(14)), DiaMartes>>)

\* RutinaA with the Monday WOD changed: same week_id, other content.
RutinaB == Semana("semana_2026_W46", <<DiaLunes(JInt(20)), DiaMartes>>)

\* A routine under another week_id.
RutinaC == Semana("semana_2026_W47", <<DiaLunes(JInt(14))>>)

\* A payload that parses but has no semana_id.
RutinaSinId == [fecha_inicio |-> JStr("2026-11-09"), dias |-> JList(<<DiaMartes>>)]

\* A payload whose day has no metadata record.
RutinaSinMetadata == Semana("semana_2026_W46", <<DiaSinMetadata>>)

\* A previously processed week, as data/processed holds it; the model may reuse
\* the week_id of a retrieved reference.
RutinaArchivo == Semana("semana_2026_W46", <<DiaMartes>>)

RutinasLLM == {RutinaA, RutinaB, RutinaC, RutinaSinId}

IdsSemana == {"semana_2026_W46", "semana_2026_W47"}

-----------------------------------------------------------------------------
(* Intent classifier (rag/generator.py detectar_intencion).  An utterance  *)
(* is a sequence of characters.                                            *)

\* str.lower() on the characters of the model.
LowerChar(c) ==
    CASE c = "O" -> "o"
      [] c = "K" -> "k"
      [] c = "M" -> "m"
      [] c = "Á" -> "á"
      [] c = "S" -> "s"
      [] OTHER -> c

Lower(m) == [i \in 1..Len(m) |-> LowerChar(m[i])]

\* palabra in texto: palabra occurs as a contiguous substring.
Contiene(texto, palabra) ==
    \E i \in 0..(Len(texto) - Len(palabra)) :
        \A j \in 1..Len(palabra) : texto[i + j] = palabra[j]

palabras_aprobar ==
    << <<"a","p","r","o","b","a","r">>,
       <<"g","u","a","r","d","a","r">>,
       <<"p","e","r","f","e","c","t","o">>,
       <<"l","i","s","t","o">>,
       <<"o","k">>,
       <<"e","s","t","á"," ","b","i","e","n">>,
       <<"m","e"," ","g","u","s","t","a">>,
       <<"c","o","n","f","i","r","m","á">>,
       <<"c","o","n","f","i","r","m","a","r">>,
       <<"p","u","b","l","i","c","a","r">>,
       <<"u","s","a","r"," ","e","s","t","a">> >>

palabras_editar ==
    << <<"c","a","m","b","i","á">>,
       <<"c","a","m","b","i","a","r">>,
       <<"m","o","d","i","f","i","c","á">>,
       <<"m","o","d","i","f","i","c","a","r">>,
       <<"r","e","e","m","p","l","a","z","á">>,
       <<"r","e","e","m","p","l","a","z","a","r">>,
       <<"q","u","i","t","á">>,
       <<"q","u","i","t","a","r">>,
       <<"a","g","r","e","g","á">>,
       <<"a","g","r","e","g","a","r">>,
       <<"a","j","u","s","t","á">>,
       <<"a","j","u","s","t","a","r">>,
       <<"b","a","j","á">>,
       <<"s","u","b","í">>,
       <<"m","e","n","o","s">>,
       <<"m","á","s">>,
       <<"e","n"," ","v","e","z"," ","d","e">>,
       <<"e","n"," ","l","u","g","a","r"," ","d","e">> >>

\* any(palabra in mensaje_lower for palabra in palabras)
AlgunaPalabra(mensaje_lower, palabras) ==
    \E k \in 1..Len(palabras) : Contiene(mensaje_lower, palabras[k])

\* Faulty variant of detectar_intencion: the edit keywords are tested first.
detectar_intencion_edicion_primero(mensaje, tiene_rutina) ==
    LET mensaje_lower == Lower(mensaje)
    IN IF tiene_rutina /\ AlgunaPalabra(mensaje_lower, palabras_editar) THEN "editar"
       ELSE IF AlgunaPalabra(mensaje_lower, palabras_aprobar) THEN "aprobar"
       ELSE IF ~tiene_rutina THEN "generar"
       ELSE IF tiene_rutina THEN "editar"
       ELSE "otro"

\* Faulty variant of detectar_intencion: without the fallback to "editar".
detectar_intencion_sin_fallback(mensaje, tiene_rutina) ==
    LET mensaje_lower == Lower(mensaje)
    IN IF AlgunaPalabra(mensaje_lower, palabras_aprobar) THEN "aprobar"
       ELSE IF tiene_rutina /\ AlgunaPalabra(mensaje_lower, palabras_editar) THEN "editar"
       ELSE IF ~tiene_rutina THEN "generar"
       ELSE "otro"

\* Faulty variant of detectar_intencion: an utterance with no keyword asks for
\* a new routine even when one exists.
detectar_intencion_generar_por_defecto(mensaje, tiene_rutina) ==
    LET mensaje_lower == Lower(mensaje)
    IN IF AlgunaPalabra(mensaje_lower, palabras_aprobar) THEN "aprobar"
       ELSE IF tiene_rutina /\ AlgunaPalabra(mensaje_lower, palabras_editar) THEN "editar"
       ELSE "generar"

\* Faulty variant of detectar_intencion: the edit keywords are honoured without
\* a routine.
detectar_intencion_editar_sin_rutina(mensaje, tiene_rutina) ==
    LET mensaje_lower == Lower(mensaje)
    IN IF AlgunaPalabra(mensaje_lower, palabras_aprobar) THEN "aprobar"
       ELSE IF AlgunaPalabra(mensaje_lower, palabras_editar) THEN "editar"
       ELSE IF ~tiene_rutina THEN "generar"
       ELSE "editar"

detectar_intencion(mensaje, tiene_rutina) ==
    LET mensaje_lower == Lower(mensaje)
    IN IF AlgunaPalabra(mensaje_lower, palabras_aprobar) THEN "aprobar"
       ELSE IF tiene_rutina /\ AlgunaPalabra(mensaje_lower, palabras_editar) THEN "editar"
       ELSE IF ~tiene_rutina THEN "generar"
       ELSE IF tiene_rutina THEN "editar"
       ELSE "otro"

-----------------------------------------------------------------------------
(* The collection (ChromaDB) and the language model, as the code uses them.*)

\* Faulty variant of Upsert: the document is added without replacing the one
\* stored under the same id.
UpsertSinReemplazo(col, id, texto, metadata) ==
    col \cup {[id |-> id, documento |-> texto, metadata |-> metadata]}

\* Faulty variant of Upsert: the write drops every other document.
UpsertDescartaOtros(col, id, texto, metadata) ==
    {[id |-> id, documento |-> texto, metadata |-> metadata]}

\* coleccion.upsert(ids=[id], documents=[texto], metadatas=[metadata])
Upsert(col, id, texto, metadata) ==
    {d \in col : d.id # id} \cup {[id |-> id, documento |-> texto, metadata |-> metadata]}

\* coleccion.count()
Count(col) == Cardinality(col)

\* Where a collection call of the current operation raises, if any does.
FallosColeccion == {"no", "conectar", "consulta", "upsert", "count"}

\* Raw completion texts, by what parsear_respuesta_llm finds in them.
Cruda(marcadores, mensaje, json) ==
    [marcadores |-> marcadores, mensaje |-> mensaje, json |-> json]

MensajeLLM1 == <<"Armé una semana con foco en fuerza.">>
MensajeLLM2 == <<"Cambié el WOD del lunes.">>

RespuestasCrudas ==
    {Cruda(FALSE, <<>>, [ausente |-> TRUE]),
     Cruda(TRUE, MensajeLLM1, [ausente |-> TRUE]),
     Cruda(TRUE, MensajeLLM1, [invalido |-> TRUE]),
     Cruda(TRUE, MensajeLLM1, [objeto |-> RutinaA]),
     Cruda(TRUE, MensajeLLM2, [objeto |-> RutinaB]),
     Cruda(TRUE, MensajeLLM1, [objeto |-> RutinaC]),
     Cruda(TRUE, MensajeLLM2, [objeto |-> RutinaSinId])}

\* Outcome of cliente.chat.completions.create: it raises or returns a text.
ResultadosLLM == {[error |-> "completion"]} \cup {[cruda |-> c] : c \in RespuestasCrudas}

\* parsear_respuesta_llm: the error it raises, or the (mensaje, rutina) pair.
parsear_respuesta_llm(respuesta_cruda) ==
    IF ~respuesta_cruda.marcadores
    THEN [error |-> "No se encontró el campo MENSAJE en la respuesta del LLM"]
    ELSE IF "ausente" \in DOMAIN respuesta_cruda.json
    THEN [error |-> "No se encontró el campo JSON en la respuesta del LLM"]
    ELSE IF "invalido" \in DOMAIN respuesta_cruda.json
    THEN [error |-> "JSONDecodeError"]
    ELSE [mensaje |-> respuesta_cruda.mensaje, rutina |-> respuesta_cruda.json.objeto]

\* obtener_coleccion + recuperar_rutinas_similares: the error raised, or "".
recuperar_contexto(col, fallo) ==
    IF fallo = "conectar" THEN "chromadb"
    ELSE IF Count(col) = 0
    THEN "La colección de ChromaDB está vacía. Ejecutá ingest.py primero para cargar las rutinas."
    ELSE IF fallo = "consulta" THEN "chromadb"
    ELSE ""

\* The collection calls recuperar_contexto issues, in order, up to the one that
\* raises: count() in obtener_coleccion, count() and query() in
\* recuperar_rutinas_similares.
TrazaRecuperar(col, fallo) ==
    IF fallo = "conectar" THEN <<>>
    ELSE IF Count(col) = 0 THEN <<"count">>
    ELSE <<"count", "count", "query">>

\* A result together with the collaborator calls that were issued for it.
ConTraza(res, traza) ==
    [k \in DOMAIN res \cup {"traza"} |-> IF k = "traza" THEN traza ELSE res[k]]

\* Faulty variant of CompletarYParsear: a failed completion is attempted again.
CompletarYParsearReintenta(llm) ==
    IF "error" \in DOMAIN llm
    THEN [error |-> "groq", traza |-> <<"completion", "completion">>]
    ELSE ConTraza(parsear_respuesta_llm(llm.cruda), <<"completion">>)

\* Completion call followed by parsing, shared by both generator modes.
CompletarYParsear(llm) ==
    ConTraza(IF "error" \in DOMAIN llm THEN [error |-> "groq"]
             ELSE parsear_respuesta_llm(llm.cruda),
             <<"completion">>)

\* A result of generar_rutina together with the fecha_inicio argument the call
\* received (the FECHA DE INICIO line of its prompt).
ConFecha(res, fecha_inicio) ==
    [k \in DOMAIN res \cup {"fecha_inicio"} |->
        IF k = "fecha_inicio" THEN fecha_inicio ELSE res[k]]

\* Faulty variant of generar_rutina: a failed retrieval is swallowed and the
\* completion is requested without context.
generar_rutina_sin_contexto(pedido_usuario, fecha_inicio, historial, col, fallo, llm) ==
    LET r == CompletarYParsear(llm)
    IN ConFecha(ConTraza(r, TrazaRecuperar(col, fallo) \o r.traza), fecha_inicio)

generar_rutina(pedido_usuario, fecha_inicio, historial, col, fallo, llm) ==
    IF recuperar_contexto(col, fallo) # ""
    THEN ConFecha([error |-> recuperar_contexto(col, fallo),
                   traza |-> TrazaRecuperar(col, fallo)], fecha_inicio)
    ELSE LET r == CompletarYParsear(llm)
         IN ConFecha(ConTraza(r, TrazaRecuperar(col, fallo) \o r.traza), fecha_inicio)

editar_rutina(correccion, rutina_actual, historial, llm) == CompletarYParsear(llm)

\* guardar_en_chromadb: whether it returns True, and the collection it leaves.
guardar_en_chromadb(rutina, col, fallo) ==
    IF \/ fallo = "conectar"
       \/ "semana_id" \notin DOMAIN rutina
       \/ TextoFalla(rutina)
       \/ MetadataFalla(rutina)
       \/ fallo = "upsert"
       \/ "str" \notin DOMAIN rutina.semana_id
    THEN [guardado |-> FALSE, coleccion |-> col, upserts |-> <<>>,
          traza |-> IF fallo = "upsert" /\ "semana_id" \in DOMAIN rutina
                       /\ ~TextoFalla(rutina) /\ ~MetadataFalla(rutina)
                    THEN <<"upsert">> ELSE <<>>]
    ELSE LET doc_id == rutina.semana_id.str
             texto == json_a_texto_enriquecido(rutina)
             metadata == extraer_metadata_para_chroma(rutina)
             nueva == Upsert(col, doc_id, texto, metadata)
         IN [guardado |-> fallo # "count",
             coleccion |-> nueva,
             upserts |-> <<[id |-> doc_id, documento |-> texto, metadata |-> metadata]>>,
             traza |-> <<"upsert", "count">>]

-----------------------------------------------------------------------------
(* Session state (rag/agent.py).                                           *)

Sesiones == {"s1", "s2"}

\* rutina_actual = None
None == [none |-> TRUE]

\* The next Monday without the step that moves a Monday to the week after.
obtener_proximo_lunes_sin_ajuste(hoy) == hoy + ((7 - (hoy % 7)) % 7)

\* Dates are day numbers; day 0 is a Monday, so weekday() is the day mod 7.
obtener_proximo_lunes(hoy) ==
    LET dias_hasta_lunes == (7 - (hoy % 7)) % 7
    IN IF dias_hasta_lunes = 0 THEN hoy + 7 ELSE hoy + dias_hasta_lunes

crear_estado_inicial(hoy) ==
    [historial |-> <<>>,
     rutina_actual |-> None,
     aprobada |-> FALSE,
     fecha_inicio |-> obtener_proximo_lunes(hoy),
     n_ediciones |-> 0]

Turno(role, content) == [role |-> role, content |-> content]

\* The failure indicator that opens every error reply (the cross mark emoji).
FALLO == "[X]"

\* The fixed call-to-action that closes the reply of a successful generation.
SufijoGenerar ==
    <<"\n\n", "La rutina está lista. Podés pedirme cambios o escribir **'aprobar'** cuando estés conforme para guardarla.">>

\* Faulty variant of RamaGenerar: the user turn is recorded before the call, so
\* a failed generation leaves it in the history.
RamaGenerarHistorialAntes(e, mensaje, res) ==
    IF "error" \in DOMAIN res
    THEN [estado |-> [e EXCEPT !.historial = e.historial \o <<Turno("user", mensaje)>>],
          respuesta |-> <<FALLO, " Hubo un error al generar la rutina: ", res.error>>]
    ELSE [estado |-> [e EXCEPT !.rutina_actual = res.rutina,
                               !.aprobada = FALSE,
                               !.n_ediciones = 0,
                               !.historial = e.historial
                                   \o <<Turno("user", mensaje),
                                        Turno("assistant", res.mensaje)>>],
          respuesta |-> res.mensaje \o SufijoGenerar]

\* Faulty variant of RamaGenerar: the assistant turn is appended before the
\* user turn.
RamaGenerarTurnosInvertidos(e, mensaje, res) ==
    IF "error" \in DOMAIN res
    THEN [estado |-> e,
          respuesta |-> <<FALLO, " Hubo un error al generar la rutina: ", res.error>>]
    ELSE [estado |-> [e EXCEPT !.rutina_actual = res.rutina,
                               !.aprobada = FALSE,
                               !.n_ediciones = 0,
                               !.historial = e.historial
                                   \o <<Turno("assistant", res.mensaje),
                                        Turno("user", mensaje)>>],
          respuesta |-> res.mensaje \o SufijoGenerar]

\* CASO 1: the generate branch, given what generar_rutina returned or raised.
RamaGenerar(e, mensaje, res) ==
    IF "error" \in DOMAIN res
    THEN [estado |-> e,
          respuesta |-> <<FALLO, " Hubo un error al generar la rutina: ", res.error>>]
    ELSE [estado |-> [e EXCEPT !.rutina_actual = res.rutina,
                               !.aprobada = FALSE,
                               !.n_ediciones = 0,
                               !.historial = e.historial
                                   \o <<Turno("user", mensaje),
                                        Turno("assistant", res.mensaje)>>],
          respuesta |-> res.mensaje \o SufijoGenerar]

\* Faulty variant of RamaEditar: the edit is counted before the call, so a
\* failed edit still raises n_ediciones.
RamaEditarCuentaAntes(e, mensaje, res) ==
    IF "error" \in DOMAIN res
    THEN [estado |-> [e EXCEPT !.n_ediciones = e.n_ediciones + 1],
          respuesta |-> <<FALLO, " Hubo un error al editar la rutina: ", res.error>>]
    ELSE [estado |-> [e EXCEPT !.rutina_actual = res.rutina,
                               !.n_ediciones = e.n_ediciones + 1,
                               !.historial = e.historial
                                   \o <<Turno("user", mensaje),
                                        Turno("assistant", res.mensaje)>>],
          respuesta |-> res.mensaje
              \o <<"\n\n", "Edición #", ToString(e.n_ediciones + 1),
                   " aplicada. Podés seguir pidiendo cambios o escribir **'aprobar'** para guardar.">>]

\* Faulty variant of RamaEditar: a failed edit discards the current routine.
RamaEditarDescartaRutina(e, mensaje, res) ==
    IF "error" \in DOMAIN res
    THEN [estado |-> [e EXCEPT !.rutina_actual = None],
          respuesta |-> <<FALLO, " Hubo un error al editar la rutina: ", res.error>>]
    ELSE [estado |-> [e EXCEPT !.rutina_actual = res.rutina,
                               !.n_ediciones = e.n_ediciones + 1,
                               !.historial = e.historial
                                   \o <<Turno("user", mensaje),
                                        Turno("assistant", res.mensaje)>>],
          respuesta |-> res.mensaje
              \o <<"\n\n", "Edición #", ToString(e.n_ediciones + 1),
                   " aplicada. Podés seguir pidiendo cambios o escribir **'aprobar'** para guardar.">>]

\* Faulty variant of RamaEditar: the reply reports the edit number before the
\* increment.
RamaEditarNumeroPrevio(e, mensaje, res) ==
    IF "error" \in DOMAIN res
    THEN [estado |-> e,
          respuesta |-> <<FALLO, " Hubo un error al editar la rutina: ", res.error>>]
    ELSE [estado |-> [e EXCEPT !.rutina_actual = res.rutina,
                               !.n_ediciones = e.n_ediciones + 1,
                               !.historial = e.historial
                                   \o <<Turno("user", mensaje),
                                        Turno("assistant", res.mensaje)>>],
          respuesta |-> res.mensaje
              \o <<"\n\n", "Edición #", ToString(e.n_ediciones),
                   " aplicada. Podés seguir pidiendo cambios o escribir **'aprobar'** para guardar.">>]

\* Faulty variant of RamaEditar: only the assistant's turn is recorded.
RamaEditarSoloAsistente(e, mensaje, res) ==
    IF "error" \in DOMAIN res
    THEN [estado |-> e,
          respuesta |-> <<FALLO, " Hubo un error al editar la rutina: ", res.error>>]
    ELSE [estado |-> [e EXCEPT !.rutina_actual = res.rutina,
                               !.n_ediciones = e.n_ediciones + 1,
                               !.historial = e.historial
                                   \o <<Turno("assistant", res.mensaje)>>],
          respuesta |-> res.mensaje
              \o <<"\n\n", "Edición #", ToString(e.n_ediciones + 1),
                   " aplicada. Podés seguir pidiendo cambios o escribir **'aprobar'** para guardar.">>]

\* CASO 2 with a routine: the edit branch, given what editar_rutina returned or raised.
RamaEditar(e, mensaje, res) ==
    IF "error" \in DOMAIN res
    THEN [estado |-> e,
          respuesta |-> <<FALLO, " Hubo un error al editar la rutina: ", res.error>>]
    ELSE [estado |-> [e EXCEPT !.rutina_actual = res.rutina,
                               !.n_ediciones = e.n_ediciones + 1,
                               !.historial = e.historial
                                   \o <<Turno("user", mensaje),
                                        Turno("assistant", res.mensaje)>>],
          respuesta |-> res.mensaje
              \o <<"\n\n", "Edición #", ToString(e.n_ediciones + 1),
                   " aplicada. Podés seguir pidiendo cambios o escribir **'aprobar'** para guardar.">>]

\* Faulty variant of RamaAprobar: the save is not recorded in the history.
RamaAprobarSinTurno(e, mensaje, guardado) ==
    IF guardado
    THEN [estado |-> [e EXCEPT !.aprobada = TRUE],
          respuesta |-> <<"**Rutina guardada correctamente** en la base de conocimiento.">>]
    ELSE [estado |-> e,
          respuesta |-> <<FALLO, " Hubo un error al guardar la rutina. Intentá de nuevo.">>]

\* Faulty variant of RamaAprobar: the routine is marked approved before the
\* outcome of the save is known.
RamaAprobarMarcaAntes(e, mensaje, guardado) ==
    IF guardado
    THEN [estado |-> [e EXCEPT !.aprobada = TRUE,
                               !.historial = e.historial
                                   \o <<Turno("user", mensaje),
                                        Turno("assistant",
                                              <<"Rutina ",
                                                Fmt(GetD(e.rutina_actual, "semana_id", JStr(""))),
                                                " guardada como ejemplo futuro.">>)>>],
          respuesta |-> <<"**Rutina guardada correctamente** en la base de conocimiento.">>]
    ELSE [estado |-> [e EXCEPT !.aprobada = TRUE],
          respuesta |-> <<FALLO, " Hubo un error al guardar la rutina. Intentá de nuevo.">>]

\* CASO 3 from a draft: the approve branch, given what guardar_en_chromadb returned.
RamaAprobar(e, mensaje, guardado) ==
    IF guardado
    THEN [estado |-> [e EXCEPT !.aprobada = TRUE,
                               !.historial = e.historial
                                   \o <<Turno("user", mensaje),
                                        Turno("assistant",
                                              <<"Rutina ",
                                                Fmt(GetD(e.rutina_actual, "semana_id", JStr(""))),
                                                " guardada como ejemplo futuro.">>)>>],
          respuesta |-> <<"**Rutina guardada correctamente** en la base de conocimiento.">>]
    ELSE [estado |-> e,
          respuesta |-> <<FALLO, " Hubo un error al guardar la rutina. Intentá de nuevo.">>]

RespuestaSinRutinaEditar == <<"Todavía no generé ninguna rutina. Contame qué tipo de semana querés.">>
RespuestaNadaQueAprobar == <<"No hay ninguna rutina para aprobar. Contame qué tipo de semana querés.">>
RespuestaYaGuardada == <<"Esta rutina ya fue guardada anteriormente.">>
RespuestaBienvenida == <<"¡Hola! Soy tu asistente de programación CrossFit.">>
RespuestaNoEntendi == <<"No entendí bien tu pedido.">>

\* What one procesar_mensaje call returns and does: the new session state, the
\* reply, the collection it leaves, the intent it detected, the downstream call
\* that failed ("" when none did) and the upserts it issued.
Resultado(e, r, col, intencion, fallo, upserts, traza) ==
    [estado |-> e, respuesta |-> r, coleccion |-> col,
     intencion |-> intencion, fallo |-> fallo, upserts |-> upserts, traza |-> traza]

\* Faulty variant of CasoGenerar: the week after the session's start date is
\* asked for.
CasoGenerarOtraSemana(mensaje, e, col, fallo, llm) ==
    LET res == generar_rutina(mensaje, e.fecha_inicio + 7, e.historial, col, fallo, llm)
        rama == RamaGenerar(e, mensaje, res)
    IN ConFecha(Resultado(rama.estado, rama.respuesta, col, "generar",
                          IF "error" \in DOMAIN res THEN "generar" ELSE "", <<>>, res.traza),
                res.fecha_inicio)

\* CASO 1 (agent.py 191-217): call generar_rutina inside the try block. The
\* result also holds the fecha_inicio the generator received.
CasoGenerar(mensaje, e, col, fallo, llm) ==
    LET res == generar_rutina(mensaje, e.fecha_inicio, e.historial, col, fallo, llm)
        rama == RamaGenerar(e, mensaje, res)
    IN ConFecha(Resultado(rama.estado, rama.respuesta, col, "generar",
                          IF "error" \in DOMAIN res THEN "generar" ELSE "", <<>>, res.traza),
                res.fecha_inicio)

\* Faulty variant of CasoEditar: a successful edit also saves the routine.
CasoEditarGuardaSolo(mensaje, e, col, fallo, llm) ==
    IF e.rutina_actual = None
    THEN Resultado(e, RespuestaSinRutinaEditar, col, "editar", "", <<>>, <<>>)
    ELSE LET res == editar_rutina(mensaje, e.rutina_actual, e.historial, llm)
             rama == RamaEditar(e, mensaje, res)
             g == guardar_en_chromadb(rama.estado.rutina_actual, col, fallo)
         IN IF "error" \in DOMAIN res
            THEN Resultado(rama.estado, rama.respuesta, col, "editar", "editar", <<>>, res.traza)
            ELSE Resultado(rama.estado, rama.respuesta, g.coleccion, "editar", "", g.upserts,
                           res.traza \o g.traza)

\* Faulty variant of CasoEditar: the edit first retrieves reference routines,
\* as the generate mode does.
CasoEditarConRecuperacion(mensaje, e, col, fallo, llm) ==
    IF e.rutina_actual = None
    THEN Resultado(e, RespuestaSinRutinaEditar, col, "editar", "", <<>>, <<>>)
    ELSE LET res == IF recuperar_contexto(col, fallo) # ""
                    THEN [error |-> recuperar_contexto(col, fallo),
                          traza |-> TrazaRecuperar(col, fallo)]
                    ELSE ConTraza(editar_rutina(mensaje, e.rutina_actual, e.historial, llm),
                                  TrazaRecuperar(col, fallo) \o <<"completion">>)
             rama == RamaEditar(e, mensaje, res)
         IN Resultado(rama.estado, rama.respuesta, col, "editar",
                      IF "error" \in DOMAIN res THEN "editar" ELSE "", <<>>, res.traza)

\* CASO 2 (agent.py 222-250): the defensive reply, or editar_rutina inside the try block.
CasoEditar(mensaje, e, col, fallo, llm) ==
    IF e.rutina_actual = None
    THEN Resultado(e, RespuestaSinRutinaEditar, col, "editar", "", <<>>, <<>>)
    ELSE LET res == editar_rutina(mensaje, e.rutina_actual, e.historial, llm)
             rama == RamaEditar(e, mensaje, res)
         IN Resultado(rama.estado, rama.respuesta, col, "editar",
                      IF "error" \in DOMAIN res THEN "editar" ELSE "", <<>>, res.traza)

\* Faulty variant of CasoAprobar: the "already saved" gate is missing.
CasoAprobarSinCompuerta(mensaje, e, col, fallo, llm) ==
    IF e.rutina_actual = None
    THEN Resultado(e, RespuestaNadaQueAprobar, col, "aprobar", "", <<>>, <<>>)
    ELSE LET g == guardar_en_chromadb(e.rutina_actual, col, fallo)
             rama == RamaAprobar(e, mensaje, g.guardado)
         IN Resultado(rama.estado, rama.respuesta, g.coleccion, "aprobar",
                      IF g.guardado THEN "" ELSE "guardar", g.upserts, g.traza)

\* Faulty variant of CasoAprobar: a failure of the save escapes the call, which
\* then produces no reply.
CasoAprobarPropaga(mensaje, e, col, fallo, llm) ==
    IF e.rutina_actual = None
    THEN Resultado(e, RespuestaNadaQueAprobar, col, "aprobar", "", <<>>, <<>>)
    ELSE IF e.aprobada
    THEN Resultado(e, RespuestaYaGuardada, col, "aprobar", "", <<>>, <<>>)
    ELSE LET g == guardar_en_chromadb(e.rutina_actual, col, fallo)
             rama == RamaAprobar(e, mensaje, g.guardado)
         IN IF g.guardado
            THEN Resultado(rama.estado, rama.respuesta, g.coleccion, "aprobar", "",
                           g.upserts, g.traza)
            ELSE Resultado(e, <<>>, g.coleccion, "aprobar", "excepcion", g.upserts, g.traza)

\* CASO 3 (agent.py 255-281): the two gates, then guardar_en_chromadb.
CasoAprobar(mensaje, e, col, fallo, llm) ==
    IF e.rutina_actual = None
    THEN Resultado(e, RespuestaNadaQueAprobar, col, "aprobar", "", <<>>, <<>>)
    ELSE IF e.aprobada
    THEN Resultado(e, RespuestaYaGuardada, col, "aprobar", "", <<>>, <<>>)
    ELSE LET g == guardar_en_chromadb(e.rutina_actual, col, fallo)
             rama == RamaAprobar(e, mensaje, g.guardado)
         IN Resultado(rama.estado, rama.respuesta, g.coleccion, "aprobar",
                      IF g.guardado THEN "" ELSE "guardar", g.upserts, g.traza)

\* CASO 4 (agent.py 286-301): the help replies.
CasoOtro(mensaje, e, col, fallo, llm) ==
    Resultado(e,
              IF e.rutina_actual = None THEN RespuestaBienvenida ELSE RespuestaNoEntendi,
              col, "otro", "", <<>>, <<>>)

procesar_mensaje(mensaje, e, col, fallo, llm) ==
    LET tiene_rutina == e.rutina_actual # None
        intencion == detectar_intencion(mensaje, tiene_rutina)
    IN IF intencion = "generar" THEN CasoGenerar(mensaje, e, col, fallo, llm)
       ELSE IF intencion = "editar" THEN CasoEditar(mensaje, e, col, fallo, llm)
       ELSE IF intencion = "aprobar" THEN CasoAprobar(mensaje, e, col, fallo, llm)
       ELSE CasoOtro(mensaje, e, col, fallo, llm)

-----------------------------------------------------------------------------
(* The routine schema (scripts/parse_routine.py): the fields a record must *)
(* hold, and the records and lists it must be built from.                  *)

\* A required field: the key is there and its value is not null.
Presente(d, k) == k \in DOMAIN d /\ d[k] # JNull

EsLista(v) == "list" \in DOMAIN v

\* Ejercicio and EjercicioWOD: nombre is required.
EjercicioValido(e) == EsDict(e) /\ Presente(e, "nombre") /\ "str" \in DOMAIN e.nombre

\* list[Ejercicio]
EjerciciosValidos(v) ==
    EsLista(v) /\ \A i \in 1..Len(v.list) : EjercicioValido(v.list[i])

\* Core and Accesorios: ejercicios defaults to the empty list.
BloqueValido(b) ==
    EsDict(b) /\ ("ejercicios" \in DOMAIN b => EjerciciosValidos(b.ejercicios))

\* WOD: formato and ejercicios are required.
WodValido(w) ==
    /\ EsDict(w)
    /\ Presente(w, "formato")
    /\ Presente(w, "ejercicios")
    /\ EjerciciosValidos(w.ejercicios)

\* Metadata: grupos_musculares and intensidad_estimada are required.
MetadataValida(m) ==
    /\ EsDict(m)
    /\ Presente(m, "grupos_musculares")
    /\ EsLista(m.grupos_musculares)
    /\ Presente(m, "intensidad_estimada")

\* DiaRutina: dia, fecha, core, wod and metadata are required.
DiaValido(d) ==
    /\ EsDict(d)
    /\ Presente(d, "dia")
    /\ Presente(d, "fecha")
    /\ Presente(d, "core") /\ BloqueValido(d.core)
    /\ Presente(d, "wod") /\ WodValido(d.wod)
    /\ Presente(d, "metadata") /\ MetadataValida(d.metadata)
    /\ Presente(d, "bloque_principal")
           => EsDict(d.bloque_principal) /\ Presente(d.bloque_principal, "tipo")
    /\ Presente(d, "accesorios") => BloqueValido(d.accesorios)

\* validar_rutina: TRUE when SemanaRutina(**datos) raises no ValidationError.
validar_rutina(datos) ==
    /\ EsDict(datos)
    /\ Presente(datos, "semana_id")
    /\ Presente(datos, "fecha_inicio")
    /\ Presente(datos, "dias")
    /\ EsLista(datos.dias)
    /\ \A i \in 1..Len(datos.dias.list) : DiaValido(datos.dias.list[i])

-----------------------------------------------------------------------------
(* Ingest (scripts/ingest.py cargar_semana).                               *)

\* Files of data/processed: missing, not JSON, or holding a week.
Archivos ==
    {[existe |-> FALSE],
     [existe |-> TRUE, json |-> [invalido |-> TRUE]],
     [existe |-> TRUE, json |-> [objeto |-> RutinaArchivo]]}

\* cargar_semana: "True", "False", or "excepcion" when an exception escapes it.
cargar_semana(col, archivo, fallo) ==
    IF ~archivo.existe
    THEN [retorno |-> "False", coleccion |-> col, upserts |-> <<>>]
    ELSE IF \/ "invalido" \in DOMAIN archivo.json
            \/ "semana_id" \notin DOMAIN archivo.json.objeto
            \/ TextoFalla(archivo.json.objeto)
            \/ MetadataFalla(archivo.json.objeto)
            \/ "str" \notin DOMAIN archivo.json.objeto.semana_id
            \/ fallo = "upsert"
    THEN [retorno |-> "excepcion", coleccion |-> col, upserts |-> <<>>]
    ELSE LET semana == archivo.json.objeto
             doc_id == semana.semana_id.str
             texto == json_a_texto_enriquecido(semana)
             metadata == extraer_metadata_para_chroma(semana)
         IN [retorno |-> "True",
             coleccion |-> Upsert(col, doc_id, texto, metadata),
             upserts |-> <<[id |-> doc_id, documento |-> texto, metadata |-> metadata]>>]

-----------------------------------------------------------------------------
(* The state machine.                                                      *)

\* Days on which a session may be created: a Monday, a Friday, the next Tuesday.
DiasHoy == {0, 4, 8}

\* Utterances of the conversation: no keyword, an edit keyword, an approval
\* keyword, and an approval keyword together with an edit keyword.
MensajePlano == <<"s", "o", "s">>
MensajeEditar == <<"m", "á", "s">>
MensajeAprobar == <<"O", "k">>
MensajeMixto == <<"o", "k", " ", "m", "á", "s">>
Mensajes == {MensajePlano, MensajeEditar, MensajeAprobar, MensajeMixto}

\* The ghost record of an upsert history: the last content written under an id
\* and whether a write ever replaced a different content.
RegistrarUpserts(u, upserts, autor) ==
    IF upserts = <<>> THEN u
    ELSE LET d == upserts[1]
         IN [u EXCEPT ![d.id] =
                 [doc |-> <<d>>,
                  reemplazo |-> u[d.id].reemplazo \/ (u[d.id].doc # <<>> /\ u[d.id].doc # <<d>>),
                  autor |-> autor]]

\* The ids of a sequence of upserted documents.
IdsDe(upserts) == [i \in 1..Len(upserts) |-> upserts[i].id]

\* The program at start: every session fresh, nothing ingested yet.
InitPrograma(hoy) ==
    /\ estado = [s \in Sesiones |-> crear_estado_inicial(hoy)]
    /\ coleccion = {}
    /\ respuesta = <<>>
    /\ llamada = [op |-> "inicio", sesion |-> "", mensaje |-> <<>>, intencion |-> "",
                  fallo |-> "", tenia_rutina |-> FALSE, estaba_aprobada |-> FALSE,
                  upserts |-> <<>>, llm |-> [error |-> "completion"], traza |-> <<>>,
                  reintento |-> FALSE, fecha_antes |-> 0, fecha_pedida |-> <<>>]
    /\ ultimo = [id \in IdsSemana |-> [doc |-> <<>>, reemplazo |-> FALSE, autor |-> ""]]

Init ==
    /\ \E hoy \in DiasHoy : InitPrograma(hoy)
    /\ entrada = <<>>
    /\ salida = <<>>

\* The collaborator outcomes a call never consults are fixed ("no" fault, the
\* completion error), so that each distinct run of the call is drawn once.
LLMNoConsultado == [error |-> "completion"]

\* The collection faults a call can meet: those of the collection calls it makes.
FallosConsultados(mensaje, e, col) ==
    LET tiene_rutina == e.rutina_actual # None
        intencion == detectar_intencion(mensaje, tiene_rutina)
    IN IF intencion = "generar"
       THEN {"no", "conectar"} \cup (IF Count(col) = 0 THEN {} ELSE {"consulta"})
       ELSE IF intencion = "aprobar" /\ tiene_rutina /\ ~e.aprobada
       THEN {"no", "conectar", "upsert", "count"}
       ELSE {"no"}

\* The completion outcomes a call can meet: all of them when it reaches the
\* completion call.
LLMConsultados(mensaje, e, col, fallo) ==
    LET tiene_rutina == e.rutina_actual # None
        intencion == detectar_intencion(mensaje, tiene_rutina)
    IN IF \/ intencion = "generar" /\ recuperar_contexto(col, fallo) = ""
          \/ intencion = "editar" /\ tiene_rutina
       THEN ResultadosLLM
       ELSE {LLMNoConsultado}

\* Faulty variant of ProcesarMensaje: the history list is one object shared by
\* every session state.
ProcesarMensajeCompartido(s, mensaje, fallo, llm) ==
    /\ Len(estado[s].historial) < 2 * MaxTurnos
    /\ \E r \in {procesar_mensaje(mensaje, estado[s], coleccion, fallo, llm)} :
          /\ estado' = [t \in Sesiones |->
                           IF t = s THEN r.estado
                           ELSE [estado[t] EXCEPT !.historial = r.estado.historial]]
          /\ coleccion' = r.coleccion
          /\ respuesta' = r.respuesta
          /\ llamada' = [op |-> "procesar_mensaje", sesion |-> s, mensaje |-> mensaje,
                         intencion |-> r.intencion, fallo |-> r.fallo,
                         tenia_rutina |-> estado[s].rutina_actual # None,
                         estaba_aprobada |-> estado[s].aprobada,
                         upserts |-> IdsDe(r.upserts), llm |-> llm, traza |-> r.traza,
                         reintento |-> r.intencion = "aprobar" /\ llamada.fallo = "guardar",
                         fecha_antes |-> estado[s].fecha_inicio,
                         fecha_pedida |-> IF "fecha_inicio" \in DOMAIN r
                                          THEN <<r.fecha_inicio>> ELSE <<>>]
          /\ ultimo' = RegistrarUpserts(ultimo, r.upserts, s)
    /\ UNCHANGED <<entrada, salida>>

\* One call procesar_mensaje(mensaje, estado[s]).
ProcesarMensaje(s, mensaje, fallo, llm) ==
    /\ Len(estado[s].historial) < 2 * MaxTurnos
    /\ \E r \in {procesar_mensaje(mensaje, estado[s], coleccion, fallo, llm)} :
          /\ estado' = [estado EXCEPT ![s] = r.estado]
          /\ coleccion' = r.coleccion
          /\ respuesta' = r.respuesta
          /\ llamada' = [op |-> "procesar_mensaje", sesion |-> s, mensaje |-> mensaje,
                         intencion |-> r.intencion, fallo |-> r.fallo,
                         tenia_rutina |-> estado[s].rutina_actual # None,
                         estaba_aprobada |-> estado[s].aprobada,
                         upserts |-> IdsDe(r.upserts), llm |-> llm, traza |-> r.traza,
                         reintento |-> r.intencion = "aprobar" /\ llamada.fallo = "guardar",
                         fecha_antes |-> estado[s].fecha_inicio,
                         fecha_pedida |-> IF "fecha_inicio" \in DOMAIN r
                                          THEN <<r.fecha_inicio>> ELSE <<>>]
          /\ ultimo' = RegistrarUpserts(ultimo, r.upserts, s)
    /\ UNCHANGED <<entrada, salida>>

\* One call cargar_semana(coleccion, archivo).
CargarSemana(archivo, fallo) ==
    /\ fallo = "upsert" => cargar_semana(coleccion, archivo, "no").retorno = "True"
    /\ \E r \in {cargar_semana(coleccion, archivo, fallo)} :
          /\ coleccion' = r.coleccion
          /\ llamada' = [op |-> "cargar_semana", sesion |-> "", mensaje |-> <<>>,
                         intencion |-> "",
                         fallo |-> IF r.retorno = "True" THEN "" ELSE r.retorno,
                         tenia_rutina |-> FALSE, estaba_aprobada |-> FALSE,
                         upserts |-> IdsDe(r.upserts), llm |-> LLMNoConsultado,
                         traza |-> [i \in 1..Len(r.upserts) |-> "upsert"], reintento |-> FALSE,
                         fecha_antes |-> 0, fecha_pedida |-> <<>>]
          /\ ultimo' = RegistrarUpserts(ultimo, r.upserts, "ingest")
    /\ UNCHANGED <<estado, respuesta, entrada, salida>>

Next ==
    \/ \E mensaje \in Mensajes :
           \E fallo \in FallosConsultados(mensaje, estado["s1"], coleccion) :
               \E llm \in LLMConsultados(mensaje, estado["s1"], coleccion, fallo) :
                   ProcesarMensaje("s1", mensaje, fallo, llm)
    \/ \E archivo \in Archivos, fallo \in {"no", "upsert"} : CargarSemana(archivo, fallo)

Spec == Init /\ [][Next]_vars

-----------------------------------------------------------------------------
(* Two sessions of the application sharing the collection, their calls     *)
(* interleaved: each utterance is a plain request or an approval, the      *)
(* store does not fail, and the completion fails or returns week A or B.   *)

MensajesSesiones == {MensajePlano, MensajeAprobar}

LLMSesiones(mensaje, e, col) ==
    {llm \in LLMConsultados(mensaje, e, col, "no") :
        "cruda" \in DOMAIN llm
            => /\ "objeto" \in DOMAIN llm.cruda.json
               /\ llm.cruda.json.objeto \in {RutinaA, RutinaB}}

NextSesiones ==
    \/ \E s \in Sesiones, mensaje \in MensajesSesiones :
           \E llm \in LLMSesiones(mensaje, estado[s], coleccion) :
               ProcesarMensaje(s, mensaje, "no", llm)
    \/ CargarSemana([existe |-> TRUE, json |-> [objeto |-> RutinaArchivo]], "no")

SpecSesiones == Init /\ [][NextSesiones]_vars

-----------------------------------------------------------------------------
(* The intent classifier on its own: every utterance over a small alphabet *)
(* that spells the approval keyword "ok" and the edit keyword "más", in    *)
(* either case, with and without a current routine.                        *)

Alfabeto == {"o", "k", "K", "m", "á", "s"}

MensajesHasta(n) == UNION {[1..k -> Alfabeto] : k \in 0..n}

InitIntencion ==
    /\ InitPrograma(0)
    /\ entrada \in [mensaje : MensajesHasta(MaxLargo), tiene_rutina : BOOLEAN]
    /\ salida = <<>>

\* One call detectar_intencion(mensaje, tiene_rutina).
Clasificar ==
    /\ salida = <<>>
    /\ salida' = <<detectar_intencion(entrada.mensaje, entrada.tiene_rutina)>>
    /\ UNCHANGED <<estado, coleccion, respuesta, llamada, ultimo, entrada>>

NextIntencion == Clasificar

SpecIntencion == InitIntencion /\ [][NextIntencion]_vars

-----------------------------------------------------------------------------
(* The similarity search on its own (rag/retriever.py                      *)
(* recuperar_rutinas_similares): every non-empty collection of up to       *)
(* MaxDocs documents, given by the store's ranking of its documents for    *)
(* the query, and every requested number of candidates.                    *)

\* Largest collection searched.
MaxDocs == 3

\* Requested numbers of candidates; 3 is the default of the code.
KPedidos == {1, 2, 3, 10}

\* Cosine distances, in ten-thousandths; none falls on a rounding tie.
Distancias == {0, 1234, 5006, 12349}

IdsDocs == {"semana_2026_W45", "semana_2026_W46", "semana_2026_W47", "semana_2026_W48"}

\* A stored document with its distance to the query.
DocsRanking == [id : IdsDocs, dist : Distancias]

\* The store's rankings of a collection of n documents: one entry per id,
\* nearest first.
Rankings(n) ==
    {q \in [1..n -> DocsRanking] :
        /\ \A i, j \in 1..n : i < j => q[i].id # q[j].id
        /\ \A i \in 1..(n - 1) : q[i].dist <= q[i + 1].dist}

Min(a, b) == IF a <= b THEN a ELSE b

\* round(1 - dist, 3), in thousandths.
Similitud(dist) == (10000 - dist + 5) \div 10

\* coleccion.query(n_results=n): the n nearest documents, or the error the
\* store raises when asked for more documents than it holds.
ConsultaColeccion(ranking, n_results) ==
    IF n_results < 1 \/ n_results > Len(ranking)
    THEN [error |-> "n_results"]
    ELSE [resultados |-> SubSeq(ranking, 1, n_results)]

\* Faulty variant of recuperar_rutinas_similares: the requested number is
\* passed to the store unclamped.
recuperar_rutinas_similares_sin_limite(ranking, n_resultados) ==
    LET resultados == ConsultaColeccion(ranking, n_resultados)
    IN IF "error" \in DOMAIN resultados THEN resultados
       ELSE [rutinas |->
                [i \in 1..Len(resultados.resultados) |->
                    [semana_id |-> resultados.resultados[i].id,
                     similitud |-> Similitud(resultados.resultados[i].dist),
                     documento |-> <<"Semana: ", resultados.resultados[i].id>>,
                     metadata |-> [semana_id |-> resultados.resultados[i].id]]]]

\* recuperar_rutinas_similares without filtros: the error raised by the query,
\* or the list of candidates.
recuperar_rutinas_similares(ranking, n_resultados) ==
    LET n == Min(n_resultados, Len(ranking))
        resultados == ConsultaColeccion(ranking, n)
    IN IF "error" \in DOMAIN resultados THEN resultados
       ELSE [rutinas |->
                [i \in 1..Len(resultados.resultados) |->
                    [semana_id |-> resultados.resultados[i].id,
                     similitud |-> Similitud(resultados.resultados[i].dist),
                     documento |-> <<"Semana: ", resultados.resultados[i].id>>,
                     metadata |-> [semana_id |-> resultados.resultados[i].id]]]]

InitRecuperar ==
    /\ InitPrograma(0)
    /\ entrada \in {[ranking |-> q, n_resultados |-> k] :
                       q \in UNION {Rankings(n) : n \in 1..MaxDocs}, k \in KPedidos}
    /\ salida = <<>>

\* One call recuperar_rutinas_similares(coleccion, query, n_resultados).
Recuperar ==
    /\ salida = <<>>
    /\ salida' = <<recuperar_rutinas_similares(entrada.ranking, entrada.n_resultados)>>
    /\ UNCHANGED <<estado, coleccion, respuesta, llamada, ultimo, entrada>>

NextRecuperar == Recuperar

SpecRecuperar == InitRecuperar /\ [][NextRecuperar]_vars

-----------------------------------------------------------------------------
(* The routine codec on its own (scripts/ingest.py): weeks whose optional  *)
(* fields are present, null or absent, and weeks of up to MaxDias days     *)
(* whose metadata lists overlap and come in either order.                  *)

\* Most days in a week given to the codec.
MaxDias == 2

\* An exercise with its reps given, null, or left out.
EjerciciosCodec ==
    {[nombre |-> JStr("Plancha"), reps |-> JStr("30s"), escala |-> JNull],
     [nombre |-> JStr("Plancha"), reps |-> JNull, escala |-> JNull],
     [nombre |-> JStr("Plancha")]}

\* A primary block: none, complete, or with its optional fields null.
BloquesPrincipalesCodec ==
    {JNull,
     [tipo |-> JStr("FUERZA"), movimiento |-> JStr("Front Squat"),
      sets |-> JInt(5), reps |-> JStr("4"), variante_principiante |-> JNull],
     [tipo |-> JStr("FUERZA"), movimiento |-> JNull,
      sets |-> JNull, reps |-> JNull, variante_principiante |-> JNull]}

\* A day whose text-relevant optional fields vary.
DiaTexto(ej, rondas, tipo, bp, grupos, intensidad) ==
    [dia |-> JStr("Lunes"),
     fecha |-> JStr("2026-11-09"),
     tipo_bloque_principal |-> tipo,
     core |-> [rondas |-> rondas, ejercicios |-> JList(<<ej>>)],
     bloque_principal |-> bp,
     wod |-> [formato |-> JStr("AMRAP"), duracion |-> JInt(14), rondas |-> JNull,
              time_cap |-> JNull, ejercicios |-> JList(<<ej>>)],
     accesorios |-> JNull,
     metadata |-> [grupos_musculares |-> JList(grupos),
                   movimientos_olimpicos |-> JList(<<>>),
                   intensidad_estimada |-> intensidad,
                   patron_movimiento_fuerza |-> JNull]]

SemanasTexto ==
    {Semana("semana_2026_W46", <<DiaTexto(ej, rondas, tipo, bp, grupos, intensidad)>>) :
        ej \in EjerciciosCodec, rondas \in {JInt(3), JNull}, tipo \in {JStr("FUERZA"), JNull},
        bp \in BloquesPrincipalesCodec, grupos \in {<<>>, <<"core">>},
        intensidad \in {JStr("alta"), JNull}}

\* A day whose metadata varies.
DiaMeta(olimpicos, grupos, patron) ==
    [dia |-> JStr("Martes"),
     fecha |-> JStr("2026-11-10"),
     tipo_bloque_principal |-> JStr("OLY"),
     core |-> [rondas |-> JInt(3), ejercicios |-> JList(<<Ejercicio("Plancha", "30s")>>)],
     bloque_principal |-> JNull,
     wod |-> [formato |-> JStr("For Time"), duracion |-> JNull, rondas |-> JInt(5),
              time_cap |-> JInt(12), ejercicios |-> JList(<<Ejercicio("Snatch", "5")>>)],
     accesorios |-> JNull,
     metadata |-> [grupos_musculares |-> JList(grupos),
                   movimientos_olimpicos |-> JList(olimpicos),
                   intensidad_estimada |-> JStr("media"),
                   patron_movimiento_fuerza |-> patron]]

DiasMeta ==
    {DiaMeta(olimpicos, grupos, patron) :
        olimpicos \in {<<>>, <<"clean">>, <<"snatch", "clean">>, <<"clean", "snatch">>},
        grupos \in {<<"piernas", "core">>, <<"hombros">>},
        patron \in {JNull, JStr("sentadilla"), JStr("empuje")}}

SemanasMeta ==
    {Semana("semana_2026_W47", dias) : dias \in UNION {[1..n -> DiasMeta] : n \in 1..MaxDias}}

InitCodec ==
    /\ InitPrograma(0)
    /\ entrada \in SemanasTexto \cup SemanasMeta
    /\ salida = <<>>

\* One encoding of a week: json_a_texto_enriquecido and
\* extraer_metadata_para_chroma, as guardar_en_chromadb and cargar_semana call them.
Codificar ==
    /\ salida = <<>>
    /\ salida' = <<[texto |-> IF TextoFalla(entrada) THEN <<>>
                              ELSE json_a_texto_enriquecido(entrada),
                    texto_falla |-> TextoFalla(entrada),
                    metadata |-> IF MetadataFalla(entrada) THEN [error |-> TRUE]
                                 ELSE extraer_metadata_para_chroma(entrada)]>>
    /\ UNCHANGED <<estado, coleccion, respuesta, llamada, ultimo, entrada>>

NextCodec == Codificar

SpecCodec == InitCodec /\ [][NextCodec]_vars

-----------------------------------------------------------------------------
(* The escape repair of parsear_respuesta_llm on its own (rag/generator.py *)
(* 161-163): the payload is {"a": "<cuerpo>"} and the body of its string   *)
(* value is a sequence of characters.                                      *)

\* Longest string body given to the repair.
MaxCuerpo == 6

AlfabetoCuerpo == {"\\", "q", "n", "u", "0"}

Cuerpos == UNION {[1..n -> AlfabetoCuerpo] : n \in 0..MaxCuerpo}

\* The characters of the regex class ["\\/bfnrt] and of [0-9a-fA-F].
EscapesSimples == {"\"", "\\", "/", "b", "f", "n", "r", "t"}

Hexadecimales ==
    {"0", "1", "2", "3", "4", "5", "6", "7", "8", "9",
     "a", "b", "c", "d", "e", "f", "A", "B", "C", "D", "E", "F"}

\* The character at position i of the body inside the payload: the closing
\* quote of the string value follows the last character.
CaracterEn(s, i) == IF i <= Len(s) THEN s[i] ELSE "\""

\* What the lookahead of the regex accepts after a backslash at position i.
EscapeReconocido(s, i) ==
    \/ CaracterEn(s, i + 1) \in EscapesSimples
    \/ /\ CaracterEn(s, i + 1) = "u"
       /\ i + 5 <= Len(s)
       /\ \A k \in 2..5 : s[i + k] \in Hexadecimales

\* re.sub(r'\\(?!["\\/bfnrt]|u[0-9a-fA-F]{4})', r'\\\\', json_str) from position i on.
RECURSIVE RepararDesde(_, _)
RepararDesde(s, i) ==
    IF i > Len(s) THEN <<>>
    ELSE (IF s[i] = "\\" /\ ~EscapeReconocido(s, i) THEN <<"\\", "\\">> ELSE <<s[i]>>)
         \o RepararDesde(s, i + 1)

reparar_escapes(s) == RepararDesde(s, 1)

\* json.loads scanning a string body from position i: "c" an ordinary
\* character, "e" a valid escape, "x" an invalid escape (it raises), "a" a
\* backslash that escapes the closing quote (the string never ends; it raises).
RECURSIVE Tokens(_, _)
Tokens(s, i) ==
    IF i > Len(s) THEN <<>>
    ELSE IF s[i] # "\\" THEN <<"c">> \o Tokens(s, i + 1)
    ELSE IF i = Len(s) THEN <<"a">>
    ELSE IF s[i + 1] = "u"
         THEN IF i + 5 <= Len(s) /\ \A k \in 2..5 : s[i + k] \in Hexadecimales
              THEN <<"e">> \o Tokens(s, i + 6)
              ELSE <<"x">> \o Tokens(s, i + 2)
    ELSE IF s[i + 1] \in EscapesSimples THEN <<"e">> \o Tokens(s, i + 2)
    ELSE <<"x">> \o Tokens(s, i + 2)

\* json.loads accepts the payload whose string value has this body.
CuerpoValido(s) == \A k \in 1..Len(Tokens(s, 1)) : Tokens(s, 1)[k] \in {"c", "e"}

InitEscapes ==
    /\ InitPrograma(0)
    /\ entrada \in Cuerpos
    /\ salida = <<>>

\* Lines 161 and 163 of parsear_respuesta_llm on one payload.
RepararYParsear ==
    /\ salida = <<>>
    /\ \E r \in {reparar_escapes(entrada)} :
           salida' = <<[reparado |-> r, valido |-> CuerpoValido(r)]>>
    /\ UNCHANGED <<estado, coleccion, respuesta, llamada, ultimo, entrada>>

NextEscapes == RepararYParsear

SpecEscapes == InitEscapes /\ [][NextEscapes]_vars

-----------------------------------------------------------------------------
(* parsear_respuesta_llm on the text of a completion (rag/generator.py     *)
(* 140-165). The text is a sequence of pieces separated by whitespace: a   *)
(* literal word or the object {"a": "<cuerpo>"}.                           *)

\* Most segments in a completion text.
MaxSegmentos == 3

Lit(s) == [lit |-> s]
Objeto(cuerpo) == [cuerpo |-> cuerpo]

ObjetoA == Objeto(<<"q">>)
ObjetoB == Objeto(<<"n">>)
ObjetoEscape == Objeto(<<"\\", "q">>)
ObjetoAbierto == Objeto(<<"q", "\\">>)

Segmentos ==
    {<<Lit("MENSAJE:"), Lit("hola")>>,
     <<Lit("MENSAJE:")>>,
     <<Lit("JSON:")>>,
     <<Lit("JSON:"), ObjetoA>>,
     <<Lit("JSON:"), ObjetoEscape>>,
     <<Lit("JSON:"), ObjetoAbierto>>,
     <<Lit("JSON:"), Lit("'''json"), ObjetoB, Lit("'''")>>,
     <<Lit("JSON:"), Lit("'''"), ObjetoAbierto, Lit("'''")>>,
     <<Lit("JSON:"), Lit("'''"), ObjetoA>>,
     <<Lit("hola")>>,
     <<ObjetoA>>,
     <<Lit("'''")>>}

TextosCrudos == {Flatten(ss) : ss \in UNION {[1..n -> Segmentos] : n \in 0..MaxSegmentos}}

\* The leftmost position of a set of positions.
Primero(S) == CHOOSE x \in S : \A y \in S : x <= y

EsObjeto(pieza) == "cuerpo" \in DOMAIN pieza

\* A piece that begins with the three backquotes of a code fence, written
\* here with apostrophes.
EsCerca(pieza) == pieza \in {Lit("'''"), Lit("'''json")}

\* re.search(r"MENSAJE:\s*(.+?)(?=JSON:)"): the pieces between the first
\* MENSAJE: and the first JSON: after it, or no match.
match_mensaje(t) ==
    LET I == {i \in 1..Len(t) : /\ t[i] = Lit("MENSAJE:")
                                 /\ \E j \in (i + 1)..Len(t) : t[j] = Lit("JSON:")}
    IN IF I = {} THEN [sin_match |-> TRUE]
       ELSE LET i == Primero(I)
                j == Primero({k \in (i + 1)..Len(t) : t[k] = Lit("JSON:")})
            IN [grupo |-> SubSeq(t, i + 1, j - 1)]

\* re.search(the pattern with the two code fences): from the first JSON:
\* followed by a fence and an opening brace, the shortest span that ends in a
\* closing brace followed by a fence.
MatchJsonCercado(t) ==
    LET Fin(k) == {m \in (k + 2)..(Len(t) - 1) : EsObjeto(t[m]) /\ EsCerca(t[m + 1])}
        K == {k \in 1..(Len(t) - 3) : /\ t[k] = Lit("JSON:")
                                      /\ t[k + 1] \in {Lit("'''"), Lit("'''json")}
                                      /\ EsObjeto(t[k + 2])
                                      /\ Fin(k) # {}}
    IN IF K = {} THEN [sin_match |-> TRUE]
       ELSE [grupo |-> SubSeq(t, Primero(K) + 2, Primero(Fin(Primero(K))))]

\* re.search(r"JSON:\s*(\{.+\})"): from the first JSON: followed by an opening
\* brace to the last closing brace of the text.
MatchJsonPlano(t) ==
    LET K == {k \in 1..(Len(t) - 1) : t[k] = Lit("JSON:") /\ EsObjeto(t[k + 1])}
    IN IF K = {} THEN [sin_match |-> TRUE]
       ELSE [grupo |-> SubSeq(t, Primero(K) + 1,
                              CHOOSE m \in 1..Len(t) :
                                  /\ EsObjeto(t[m])
                                  /\ \A n \in (m + 1)..Len(t) : ~EsObjeto(t[n]))]

\* The two searches at lines 149-153: the fenced pattern, then the unfenced one.
match_json(t) ==
    IF "grupo" \in DOMAIN MatchJsonCercado(t) THEN MatchJsonCercado(t) ELSE MatchJsonPlano(t)

\* The string json.loads decodes from a valid body.
RECURSIVE Decodificar(_, _)
Decodificar(s, i) ==
    IF i > Len(s) THEN <<>>
    ELSE IF s[i] # "\\" THEN <<s[i]>> \o Decodificar(s, i + 1)
    ELSE IF s[i + 1] = "u" THEN <<"U+", s[i + 2], s[i + 3], s[i + 4], s[i + 5]>>
                                 \o Decodificar(s, i + 6)
    ELSE <<CASE s[i + 1] = "n" -> "LF"
             [] s[i + 1] = "t" -> "TAB"
             [] s[i + 1] = "r" -> "CR"
             [] s[i + 1] = "b" -> "BS"
             [] s[i + 1] = "f" -> "FF"
             [] OTHER -> s[i + 1]>> \o Decodificar(s, i + 2)

\* Lines 158-163 on the captured span: the escape repair and json.loads.
CargarJson(grupo) ==
    IF Len(grupo) = 1 /\ CuerpoValido(reparar_escapes(grupo[1].cuerpo))
    THEN [rutina |-> [a |-> Decodificar(reparar_escapes(grupo[1].cuerpo), 1)]]
    ELSE [error |-> "JSONDecodeError"]

\* The missing-message check made after the search for the payload.
ParsearTextoJsonPrimero(t) ==
    IF "sin_match" \in DOMAIN match_json(t)
    THEN [error |-> "No se encontró el campo JSON en la respuesta del LLM"]
    ELSE IF "sin_match" \in DOMAIN match_mensaje(t)
    THEN [error |-> "No se encontró el campo MENSAJE en la respuesta del LLM"]
    ELSE IF "error" \in DOMAIN CargarJson(match_json(t).grupo)
    THEN CargarJson(match_json(t).grupo)
    ELSE [mensaje |-> match_mensaje(t).grupo,
          rutina |-> CargarJson(match_json(t).grupo).rutina]

\* parsear_respuesta_llm on the text: the error raised, or (mensaje, rutina).
ParsearTexto(t) ==
    IF "sin_match" \in DOMAIN match_mensaje(t)
    THEN [error |-> "No se encontró el campo MENSAJE en la respuesta del LLM"]
    ELSE IF "sin_match" \in DOMAIN match_json(t)
    THEN [error |-> "No se encontró el campo JSON en la respuesta del LLM"]
    ELSE IF "error" \in DOMAIN CargarJson(match_json(t).grupo)
    THEN CargarJson(match_json(t).grupo)
    ELSE [mensaje |-> match_mensaje(t).grupo,
          rutina |-> CargarJson(match_json(t).grupo).rutina]

InitParser ==
    /\ InitPrograma(0)
    /\ entrada \in TextosCrudos
    /\ salida = <<>>

Parsear ==
    /\ salida = <<>>
    /\ salida' = <<ParsearTexto(entrada)>>
    /\ UNCHANGED <<estado, coleccion, respuesta, llamada, ultimo, entrada>>

NextParser == Parsear

SpecParser == InitParser /\ [][NextParser]_vars

-----------------------------------------------------------------------------
(* obtener_proximo_lunes on its own (rag/agent.py 87-105). Dates are day   *)
(* numbers and day 0 is a Monday, so hoy % 7 is datetime.weekday().        *)

\* Last day number given as today.
MaxDia == 69

InitLunes ==
    /\ InitPrograma(0)
    /\ entrada \in 0..MaxDia
    /\ salida = <<>>

CalcularLunes ==
    /\ salida = <<>>
    /\ salida' = <<obtener_proximo_lunes(entrada)>>
    /\ UNCHANGED <<estado, coleccion, respuesta, llamada, ultimo, entrada>>

NextLunes == CalcularLunes

SpecLunes == InitLunes /\ [][NextLunes]_vars

-----------------------------------------------------------------------------
(* cargar_todas_las_semanas on its own (scripts/ingest.py 263-302). A file *)
(* name is a number (semana_01.json, semana_02.json, ...), and glob lists  *)
(* the files of the folder in any order.                                   *)

\* Most files in the folder of processed weeks.
MaxArchivos == 3

ArchivosCarpeta ==
    {[existe |-> FALSE],
     [existe |-> TRUE, json |-> [invalido |-> TRUE]],
     [existe |-> TRUE, json |-> [objeto |-> RutinaArchivo]],
     [existe |-> TRUE, json |-> [objeto |-> RutinaC]]}

\* The listings glob can return for a folder of n files.
Listados(n) ==
    {[i \in 1..n |-> [nombre |-> p[i], archivo |-> c[p[i]]]] :
        p \in {f \in [1..n -> 1..n] : \A i, j \in 1..n : f[i] = f[j] => i = j},
        c \in [1..n -> ArchivosCarpeta]}

Carpetas ==
    {[existe |-> FALSE, glob |-> <<>>]}
    \cup {[existe |-> TRUE, glob |-> g] : g \in UNION {Listados(n) : n \in 0..MaxArchivos}}

\* sorted(archivos_json).
RECURSIVE OrdenarPorNombre(_)
OrdenarPorNombre(g) ==
    IF g = <<>> THEN <<>>
    ELSE LET k == CHOOSE i \in 1..Len(g) : \A j \in 1..Len(g) : g[i].nombre <= g[j].nombre
         IN <<g[k]>> \o OrdenarPorNombre([i \in 1..(Len(g) - 1) |-> IF i < k THEN g[i] ELSE g[i + 1]])

\* The loop of lines 297-300 from file i on: an exception of cargar_semana
\* leaves the function at once.
RECURSIVE CargarDesde(_, _, _, _)
CargarDesde(col, archivos, i, exitosos) ==
    IF i > Len(archivos)
    THEN [excepcion |-> FALSE, retorno |-> exitosos, coleccion |-> col]
    ELSE LET r == cargar_semana(col, archivos[i].archivo, "no")
         IN IF r.retorno = "excepcion"
            THEN [excepcion |-> TRUE, retorno |-> 0, coleccion |-> col]
            ELSE CargarDesde(r.coleccion, archivos, i + 1,
                             IF r.retorno = "True" THEN exitosos + 1 ELSE exitosos)

cargar_todas_las_semanas(col, carpeta) ==
    IF ~carpeta.existe \/ carpeta.glob = <<>>
    THEN [excepcion |-> FALSE, retorno |-> 0, coleccion |-> col]
    ELSE CargarDesde(col, OrdenarPorNombre(carpeta.glob), 1, 0)

InitIngesta ==
    /\ InitPrograma(0)
    /\ entrada \in Carpetas
    /\ salida = <<>>

CargarTodas ==
    /\ salida = <<>>
    /\ \E r \in {cargar_todas_las_semanas(coleccion, entrada)} :
           /\ salida' = <<[excepcion |-> r.excepcion, retorno |-> r.retorno]>>
           /\ coleccion' = r.coleccion
    /\ UNCHANGED <<estado, respuesta, llamada, ultimo, entrada>>

NextIngesta == CargarTodas

SpecIngesta == InitIngesta /\ [][NextIngesta]_vars

-----------------------------------------------------------------------------
(* The program over a collection that is never loaded: both sessions call
   procesar_mensaje with any utterance, any collection fault and any completion
   outcome, and no file is ever ingested. *)

NextVacia ==
    \E s \in Sesiones, mensaje \in Mensajes :
        \E fallo \in FallosColeccion, llm \in ResultadosLLM :
            ProcesarMensaje(s, mensaje, fallo, llm)

SpecVacia == Init /\ [][NextVacia]_vars

-----------------------------------------------------------------------------
(* The session with its "Nueva rutina" button (app/streamlit_app.py): next to
   the calls of procesar_mensaje and the bulk load, the user can press the
   button whenever the session holds a routine. *)

\* Faulty variant of nueva_rutina: the history of the discarded session is kept.
nueva_rutina_conserva_historial(e, col, hoy) ==
    [estado |-> [crear_estado_inicial(hoy) EXCEPT !.historial = e.historial],
     coleccion |-> col]

\* st.session_state.estado = crear_estado_inicial(): the button's handler.
nueva_rutina(e, col, hoy) ==
    [estado |-> crear_estado_inicial(hoy), coleccion |-> col]

\* The button is drawn only when the session holds a routine.
NuevaRutina(s, hoy) ==
    /\ estado[s].rutina_actual # None
    /\ \E r \in {nueva_rutina(estado[s], coleccion, hoy)} :
          /\ estado' = [estado EXCEPT ![s] = r.estado]
          /\ coleccion' = r.coleccion
    /\ respuesta' = <<"Empecemos de nuevo. ¿Qué tipo de semana querés generar?">>
    /\ llamada' = [op |-> "nueva_rutina", sesion |-> s, mensaje |-> <<>>, intencion |-> "",
                   fallo |-> "", tenia_rutina |-> TRUE,
                   estaba_aprobada |-> estado[s].aprobada,
                   upserts |-> <<>>, llm |-> LLMNoConsultado, traza |-> <<>>,
                   reintento |-> FALSE, fecha_antes |-> estado[s].fecha_inicio,
                   fecha_pedida |-> <<>>]
    /\ UNCHANGED <<ultimo, entrada, salida>>

NextReinicio ==
    \/ \E mensaje \in MensajesSesiones :
           \E llm \in LLMSesiones(mensaje, estado["s1"], coleccion) :
               ProcesarMensaje("s1", mensaje, "no", llm)
    \/ CargarSemana([existe |-> TRUE, json |-> [objeto |-> RutinaArchivo]], "no")
    \/ \E hoy \in DiasHoy : NuevaRutina("s1", hoy)

SpecReinicio == Init /\ [][NextReinicio]_vars

-----------------------------------------------------------------------------
(* The display value of a WOD on its own: the choice that the text encoder
   (scripts/ingest.py) and the Markdown renderer (rag/agent.py) make between
   duracion, rondas and time_cap, over every WOD whose three fields are
   absent, null, zero, empty or a number up to MaxValor. *)

MaxValor == 2

CamposWod == {"duracion", "rondas", "time_cap"}

ValoresWod == {JNull, JInt(0), JStr("")} \cup {JInt(n) : n \in 1..MaxValor}

Wods == UNION {[D -> ValoresWod] : D \in SUBSET CamposWod}

\* Faulty variant of DetalleWod: rondas is looked at before duracion.
DetalleWodRondasPrimero(wod) ==
    IF Truthy(Get(wod, "rondas")) THEN <<Fmt(wod.rondas), "rounds">>
    ELSE IF Truthy(Get(wod, "duracion")) THEN <<Fmt(wod.duracion), "'">>
    ELSE IF Truthy(Get(wod, "time_cap")) THEN <<"TC", Fmt(wod.time_cap), "'">>
    ELSE <<"">>

\* The detalle of rutina_a_markdown: duracion, rondas and time_cap are read
\* with wod.get and tested in that order.
DetalleWod(wod) ==
    LET duracion == Get(wod, "duracion")
        rondas == Get(wod, "rondas")
        time_cap == Get(wod, "time_cap")
    IN IF Truthy(duracion) THEN <<Fmt(duracion), "'">>
       ELSE IF Truthy(rondas) THEN <<Fmt(rondas), "rounds">>
       ELSE IF Truthy(time_cap) THEN <<"TC", Fmt(time_cap), "'">>
       ELSE <<"">>

InitWod ==
    /\ InitPrograma(0)
    /\ entrada \in Wods
    /\ salida = <<>>

\* Both renderings of one WOD.
MostrarWod ==
    /\ salida = <<>>
    /\ salida' = <<[ingest |-> DuracionStr(entrada), markdown |-> DetalleWod(entrada)]>>
    /\ UNCHANGED <<estado, coleccion, respuesta, llamada, ultimo, entrada>>

NextWod == MostrarWod

SpecWod == InitWod /\ [][NextWod]_vars

-----------------------------------------------------------------------------
(* The context formatter on its own (rag/retriever.py
   formatear_contexto_para_llm): every sequence of up to MaxCandidatos
   candidates, each with any subset of the three summary keys in its metadata.
   A text is the sequence of the elements of lineas, which "\n".join puts one
   after the other; an element is a sequence of pieces. *)

MaxCandidatos == 2

IdsCandidatos == {"semana_2026_W45", "semana_2026_W46", "semana_2026_W47"}

\* The similarity of each candidate, in thousandths.
SimilitudDe(id) ==
    CASE id = "semana_2026_W45" -> 877
      [] id = "semana_2026_W46" -> 500
      [] OTHER -> -235

ClavesResumen == {"movimientos_olimpicos", "patrones_fuerza", "grupos_musculares"}

ValoresResumen ==
    [semana_id |-> <<>>,
     movimientos_olimpicos |-> <<"clean", ", ", "snatch">>,
     patrones_fuerza |-> <<>>,
     grupos_musculares |-> <<"hombros", ", ", "piernas">>]

Candidatos ==
    {[semana_id |-> id,
      similitud |-> SimilitudDe(id),
      documento |-> <<"Semana: ", id, "\n", "LUNES">>,
      metadata |-> [k \in D \cup {"semana_id"} |->
                        IF k = "semana_id" THEN <<id>> ELSE ValoresResumen[k]]] :
        id \in IdsCandidatos, D \in SUBSET ClavesResumen}

ListasCandidatos == UNION {[1..n -> Candidatos] : n \in 0..MaxCandidatos}

\* str() of a float that round(x, 3) returned, given in thousandths: the
\* shortest decimal, with at least one digit after the point.
FmtSimilitud(n) ==
    LET a == IF n < 0 THEN 0 - n ELSE n
        f == a % 1000
        decimales == IF f % 100 = 0 THEN <<ToString(f \div 100)>>
                     ELSE IF f % 10 = 0
                          THEN <<ToString(f \div 100), ToString((f \div 10) % 10)>>
                     ELSE <<ToString(f \div 100), ToString((f \div 10) % 10), ToString(f % 10)>>
    IN (IF n < 0 THEN <<"-">> ELSE <<>>) \o <<ToString(a \div 1000), ".">> \o decimales

\* meta.get(k, def) inside an f-string.
ResumenMeta(meta, k, def) == IF k \in DOMAIN meta THEN meta[k] ELSE <<def>>

\* The nine elements the loop appends for candidate number i.
BloqueCandidato(i, rutina) ==
    <<<<"[Rutina ", ToString(i), " - ", rutina.semana_id, " (similitud: ">>
          \o FmtSimilitud(rutina.similitud) \o <<")]">>,
      <<"Olímpicos usados: ">> \o ResumenMeta(rutina.metadata, "movimientos_olimpicos", "ninguno"),
      <<"Patrones de fuerza: ">> \o ResumenMeta(rutina.metadata, "patrones_fuerza", "ninguno"),
      <<"Grupos musculares: ">>
          \o ResumenMeta(rutina.metadata, "grupos_musculares", "no especificado"),
      <<>>,
      rutina.documento,
      <<>>,
      <<"--------------------------------------------------">>,
      <<>> >>

\* Faulty variant of formatear_contexto_para_llm: the blocks come out in
\* reverse order.
formatear_contexto_orden_inverso(rutinas) ==
    IF rutinas = <<>>
    THEN [texto |-> <<<<"No se encontraron rutinas de referencia en la base de datos.">>>>]
    ELSE [texto |->
             <<<<"RUTINAS DE REFERENCIA">>,
               <<"==================================================">>,
               <<"Se recuperaron ", ToString(Len(rutinas)),
                 " rutinas similares para usar como base.">>,
               <<>> >>
             \o Flatten([i \in 1..Len(rutinas) |->
                            BloqueCandidato(i, rutinas[Len(rutinas) + 1 - i])])]

\* formatear_contexto_para_llm(rutinas): the text, or the error a candidate
\* without one of its four keys raises.
formatear_contexto_para_llm(rutinas) ==
    IF rutinas = <<>>
    THEN [texto |-> <<<<"No se encontraron rutinas de referencia en la base de datos.">>>>]
    ELSE IF \E i \in 1..Len(rutinas) :
                {"semana_id", "similitud", "metadata", "documento"} \ DOMAIN rutinas[i] # {}
    THEN [error |-> "KeyError"]
    ELSE [texto |->
             <<<<"RUTINAS DE REFERENCIA">>,
               <<"==================================================">>,
               <<"Se recuperaron ", ToString(Len(rutinas)),
                 " rutinas similares para usar como base.">>,
               <<>> >>
             \o Flatten([i \in 1..Len(rutinas) |-> BloqueCandidato(i, rutinas[i])])]

InitContexto ==
    /\ InitPrograma(0)
    /\ entrada \in ListasCandidatos
    /\ salida = <<>>

\* One call formatear_contexto_para_llm(rutinas).
FormatearContexto ==
    /\ salida = <<>>
    /\ salida' = <<formatear_contexto_para_llm(entrada)>>
    /\ UNCHANGED <<estado, coleccion, respuesta, llamada, ultimo, entrada>>

NextContexto == FormatearContexto

SpecContexto == InitContexto /\ [][NextContexto]_vars

-----------------------------------------------------------------------------
(* The start-up load on its own (rag/pipeline.py inicializar_si_vacia): the
   app calls it up to MaxArranques times over one folder of processed files,
   starting from an empty collection or from one that already holds a week. *)

MaxArranques == 2

\* A collection that a previous run left with one week.
ColeccionPrevia ==
    cargar_semana({}, [existe |-> TRUE, json |-> [objeto |-> RutinaC]], "no").coleccion

\* Faulty variant of inicializar_si_vacia: the folder is loaded whatever the
\* collection holds.
inicializar_si_vacia_sin_compuerta(col, carpeta) ==
    cargar_todas_las_semanas(col, carpeta)

\* inicializar_si_vacia(): 0 when the collection holds a document, else what
\* cargar_todas_las_semanas returns or raises.
inicializar_si_vacia(col, carpeta) ==
    IF Count(col) > 0
    THEN [excepcion |-> FALSE, retorno |-> 0, coleccion |-> col]
    ELSE cargar_todas_las_semanas(col, carpeta)

InitArranque ==
    /\ InitPrograma(0)
    /\ entrada \in Carpetas
    /\ salida = <<>>

\* The collection a previous run left, seen by the first start of the app.
ColeccionHeredada ==
    /\ salida = <<>>
    /\ coleccion = {}
    /\ coleccion' = ColeccionPrevia
    /\ UNCHANGED <<estado, respuesta, llamada, ultimo, entrada, salida>>

\* One start of the app: the call, with the collection before and after it.
InicializarSiVacia ==
    /\ Len(salida) < MaxArranques
    /\ \E r \in {inicializar_si_vacia(coleccion, entrada)} :
           /\ salida' = Append(salida, [excepcion |-> r.excepcion, retorno |-> r.retorno,
                                        antes |-> coleccion, despues |-> r.coleccion])
           /\ coleccion' = r.coleccion
    /\ UNCHANGED <<estado, respuesta, llamada, ultimo, entrada>>

NextArranque == ColeccionHeredada \/ InicializarSiVacia

SpecArranque == InitArranque /\ [][NextArranque]_vars

-----------------------------------------------------------------------------
(* Properties of the session state machine and the store (Spec).           *)

\* C1: when the generate call, the edit call or the persistence call of a
\* procesar_mensaje call fails, rutina_actual, aprobada and n_ediciones of
\* every session keep the values they had before the call.
C1_FalloNoMutaCampos ==
    [][(llamada'.op = "procesar_mensaje" /\ llamada'.fallo \in {"generar", "editar", "guardar"})
           => \A s \in Sesiones :
                  /\ estado'[s].rutina_actual = estado[s].rutina_actual
                  /\ estado'[s].aprobada = estado[s].aprobada
                  /\ estado'[s].n_ediciones = estado[s].n_ediciones]_vars

\* A persistence call has just failed on a draft that was edited at least once.
C1_Testigo ==
    /\ llamada.op = "procesar_mensaje"
    /\ llamada.fallo = "guardar"
    /\ estado["s1"].n_ediciones > 0
    /\ ~estado["s1"].aprobada

\* C2: when the generate or edit call of a procesar_mensaje call fails
\* (retrieval, completion or parse error), the session history is the same
\* sequence of turns after the call as before it.
C2_FalloNoTocaHistorial ==
    [][(llamada'.op = "procesar_mensaje" /\ llamada'.fallo \in {"generar", "editar"})
           => \A s \in Sesiones : estado'[s].historial = estado[s].historial]_vars

\* An edit has just failed in a session whose history already holds turns.
C2_Testigo ==
    /\ llamada.op = "procesar_mensaje"
    /\ llamada.fallo = "editar"
    /\ Len(estado["s1"].historial) >= 2

\* C3: in every reachable session state, aprobada implies that rutina_actual
\* is present, and n_ediciones > 0 implies that rutina_actual is present.
C3_RutinaPresente ==
    \A s \in Sesiones :
        /\ estado[s].aprobada => estado[s].rutina_actual # None
        /\ estado[s].n_ediciones > 0 => estado[s].rutina_actual # None

\* An approved routine that was edited before its approval.
C3_Testigo ==
    /\ estado["s1"].aprobada
    /\ estado["s1"].n_ediciones > 0
    /\ estado["s1"].rutina_actual # None

\* C4: an approve intent with no routine changes no session field, writes
\* nothing to the store and replies "nothing to approve"; an approve intent on
\* an approved routine changes no session field, writes nothing to the store
\* and replies "already saved".
C4_AprobarSinEfecto ==
    [][(/\ llamada'.op = "procesar_mensaje"
        /\ llamada'.intencion = "aprobar"
        /\ (~llamada'.tenia_rutina \/ llamada'.estaba_aprobada))
           => /\ estado' = estado
              /\ coleccion' = coleccion
              /\ llamada'.upserts = <<>>
              /\ respuesta' = IF ~llamada'.tenia_rutina
                              THEN RespuestaNadaQueAprobar
                              ELSE RespuestaYaGuardada]_vars

\* A second approval of an approved routine has just been answered.
C4_Testigo ==
    /\ llamada.op = "procesar_mensaje"
    /\ llamada.intencion = "aprobar"
    /\ llamada.estaba_aprobada
    /\ estado["s1"].aprobada
    /\ respuesta = RespuestaYaGuardada

\* C5: for every successful edit, the semana_id of rutina_actual after the
\* edit equals the semana_id before it.
C5_SemanaIdEstable ==
    [][(/\ llamada'.op = "procesar_mensaje"
        /\ llamada'.intencion = "editar"
        /\ llamada'.tenia_rutina
        /\ llamada'.fallo = "")
           => LET s == llamada'.sesion
              IN Get(estado'[s].rutina_actual, "semana_id")
                     = Get(estado[s].rutina_actual, "semana_id")]_vars

\* C6: the collection holds at most one document per week id, and the
\* document under a week id is the one written by the most recent upsert for
\* that id.
C6_UnDocumentoPorSemana ==
    /\ \A d \in coleccion : d.id \in IdsSemana
    /\ \A id \in IdsSemana :
           LET docs == {d \in coleccion : d.id = id}
           IN /\ Cardinality(docs) <= 1
              /\ ultimo[id].doc = <<>> => docs = {}
              /\ ultimo[id].doc # <<>> => docs = {ultimo[id].doc[1]}

\* A week id was upserted twice with different content.
C6_Testigo ==
    /\ ultimo["semana_2026_W46"].reemplazo
    /\ Cardinality({d \in coleccion : d.id = "semana_2026_W46"}) = 1

\* C7: a procesar_mensaje call that is not an approval of a draft (the
\* generate, edit and other branches, and approvals with no routine or of an
\* approved routine) leaves the stored documents unchanged.
C7_SoloAprobarEscribe ==
    [][(/\ llamada'.op = "procesar_mensaje"
        /\ ~(/\ llamada'.intencion = "aprobar"
             /\ llamada'.tenia_rutina
             /\ ~llamada'.estaba_aprobada))
           => /\ coleccion' = coleccion
              /\ llamada'.upserts = <<>>]_vars

\* A successful edit has just run against a store that holds documents.
C7_Testigo ==
    /\ llamada.op = "procesar_mensaje"
    /\ llamada.intencion = "editar"
    /\ llamada.tenia_rutina
    /\ llamada.fallo = ""
    /\ coleccion # {}

\* C10: a successful generate from the empty state leaves rutina_actual equal
\* to the routine the generator returned, aprobada FALSE, n_ediciones 0, the
\* history extended by exactly the user utterance then the model's message,
\* and replies with the model's message followed by the fixed suffix.
C10_GenerarExitoso ==
    [][(/\ llamada'.op = "procesar_mensaje"
        /\ llamada'.intencion = "generar"
        /\ ~llamada'.tenia_rutina
        /\ llamada'.fallo = "")
           => LET s == llamada'.sesion
                  res == parsear_respuesta_llm(llamada'.llm.cruda)
              IN /\ estado'[s].rutina_actual = res.rutina
                 /\ estado'[s].aprobada = FALSE
                 /\ estado'[s].n_ediciones = 0
                 /\ estado'[s].historial
                        = estado[s].historial
                            \o <<[role |-> "user", content |-> llamada'.mensaje],
                                 [role |-> "assistant", content |-> res.mensaje]>>
                 /\ estado'[s].fecha_inicio = estado[s].fecha_inicio
                 /\ respuesta' = res.mensaje \o SufijoGenerar]_vars

\* The first call of a session has just generated the sample week A.
C10_Testigo ==
    /\ llamada.op = "procesar_mensaje"
    /\ llamada.intencion = "generar"
    /\ llamada.fallo = ""
    /\ estado["s1"].rutina_actual = RutinaA
    /\ Len(estado["s1"].historial) = 2
    /\ estado["s1"].historial[1].role = "user"
    /\ respuesta = MensajeLLM1 \o SufijoGenerar

\* C11: a successful edit of a draft replaces rutina_actual by the routine the
\* editor returned, raises n_ediciones by exactly 1, leaves aprobada FALSE (the
\* state stays a draft), appends the user turn then the assistant turn, and
\* replies with the edit number after the increment.
C11_EditarExitoso ==
    [][(/\ llamada'.op = "procesar_mensaje"
        /\ llamada'.intencion = "editar"
        /\ llamada'.tenia_rutina
        /\ ~llamada'.estaba_aprobada
        /\ llamada'.fallo = "")
           => LET s == llamada'.sesion
                  res == parsear_respuesta_llm(llamada'.llm.cruda)
              IN /\ estado'[s].rutina_actual = res.rutina
                 /\ estado'[s].n_ediciones = estado[s].n_ediciones + 1
                 /\ estado'[s].aprobada = FALSE
                 /\ estado'[s].fecha_inicio = estado[s].fecha_inicio
                 /\ estado'[s].historial
                        = estado[s].historial
                            \o <<[role |-> "user", content |-> llamada'.mensaje],
                                 [role |-> "assistant", content |-> res.mensaje]>>
                 /\ respuesta'
                        = res.mensaje
                            \o <<"\n\n", "Edición #", ToString(estado'[s].n_ediciones),
                                 " aplicada. Podés seguir pidiendo cambios o escribir **'aprobar'** para guardar.">>]_vars

\* The second successful edit of a draft has just replaced week A by week B.
C11_Testigo ==
    /\ llamada.op = "procesar_mensaje"
    /\ llamada.intencion = "editar"
    /\ llamada.fallo = ""
    /\ ~estado["s1"].aprobada
    /\ estado["s1"].n_ediciones = 2
    /\ estado["s1"].rutina_actual = RutinaB

\* C12: a successful approval of a draft issues one upsert keyed by the
\* routine's semana_id, with json_a_texto_enriquecido(routine) as document and
\* extraer_metadata_para_chroma(routine) as metadata; afterwards aprobada is
\* TRUE, rutina_actual and n_ediciones are unchanged, and the history ends with
\* the assistant turn recording the save of that semana_id.
C12_AprobarExitoso ==
    [][(/\ llamada'.op = "procesar_mensaje"
        /\ llamada'.intencion = "aprobar"
        /\ llamada'.tenia_rutina
        /\ ~llamada'.estaba_aprobada
        /\ llamada'.fallo = "")
           => LET s == llamada'.sesion
                  rutina == estado[s].rutina_actual
                  id == rutina.semana_id.str
                  doc == [id |-> id,
                          documento |-> json_a_texto_enriquecido(rutina),
                          metadata |-> extraer_metadata_para_chroma(rutina)]
              IN /\ llamada'.upserts = <<id>>
                 /\ ultimo'[id].doc = <<doc>>
                 /\ {d \in coleccion' : d.id = id} = {doc}
                 /\ {d \in coleccion' : d.id # id} = {d \in coleccion : d.id # id}
                 /\ estado'[s].aprobada = TRUE
                 /\ estado'[s].rutina_actual = rutina
                 /\ estado'[s].n_ediciones = estado[s].n_ediciones
                 /\ Len(estado'[s].historial) = Len(estado[s].historial) + 2
                 /\ SubSeq(estado'[s].historial, 1, Len(estado[s].historial))
                        = estado[s].historial
                 /\ estado'[s].historial[Len(estado'[s].historial)]
                        = [role |-> "assistant",
                           content |-> <<"Rutina ", id, " guardada como ejemplo futuro.">>]]_vars

\* An edited draft of week 47 has just been approved and stored.
C12_Testigo ==
    /\ llamada.op = "procesar_mensaje"
    /\ llamada.intencion = "aprobar"
    /\ llamada.fallo = ""
    /\ llamada.upserts = <<"semana_2026_W47">>
    /\ estado["s1"].aprobada
    /\ estado["s1"].n_ediciones = 1
    /\ estado["s1"].historial[Len(estado["s1"].historial)].role = "assistant"

\* C13: when the save fails during the approval of a draft, the session state
\* is unchanged (aprobada FALSE, history not extended, still a draft) and the
\* reply is the save-error reply; an approve utterance that follows calls the
\* save again, and leaves the routine approved when that save succeeds.
C13_ReintentoDeAprobar ==
    [][/\ (llamada'.op = "procesar_mensaje" /\ llamada'.fallo = "guardar")
              => LET s == llamada'.sesion
                 IN /\ estado' = estado
                    /\ estado'[s].aprobada = FALSE
                    /\ estado'[s].rutina_actual # None
                    /\ respuesta' = <<FALLO, " Hubo un error al guardar la rutina. Intentá de nuevo.">>
       /\ (llamada'.op = "procesar_mensaje" /\ llamada'.reintento)
              => LET s == llamada'.sesion
                 IN /\ llamada'.tenia_rutina /\ ~llamada'.estaba_aprobada
                    /\ llamada'.fallo = "guardar" \/ llamada'.upserts # <<>>
                    /\ llamada'.fallo = ""
                           => estado'[s].aprobada /\ llamada'.upserts # <<>>]_vars

\* An approve utterance that followed a failed save has just stored the routine.
C13_Testigo ==
    /\ llamada.op = "procesar_mensaje"
    /\ llamada.reintento
    /\ llamada.fallo = ""
    /\ llamada.upserts # <<>>
    /\ estado["s1"].aprobada

\* C14: every procesar_mensaje call returns a reply and a well-formed session
\* state, whatever failure retrieval, completion, parsing or persistence
\* produced; the reply of a failed generate, edit or save begins with the
\* failure indicator; the returned state accepts a further call.
C14_SinEstadosFatales ==
    [][llamada'.op = "procesar_mensaje"
           => LET s == llamada'.sesion
              IN /\ respuesta' # <<>>
                 /\ llamada'.fallo \in {"", "generar", "editar", "guardar"}
                 /\ llamada'.fallo # "" => respuesta'[1] = FALLO
                 /\ llamada'.fallo = "" => respuesta'[1] # FALLO
                 /\ DOMAIN estado'[s]
                        = {"historial", "rutina_actual", "aprobada", "fecha_inicio", "n_ediciones"}
                 /\ estado'[s].aprobada \in BOOLEAN
                 /\ estado'[s].n_ediciones \in Nat
                 /\ \A m \in Mensajes :
                        detectar_intencion(m, estado'[s].rutina_actual # None)
                            \in {"generar", "editar", "aprobar"}]_vars

\* A save has just failed after the upsert, on the trailing count(), and the
\* reply carries the failure indicator.
C14_Testigo ==
    /\ llamada.op = "procesar_mensaje"
    /\ llamada.fallo = "guardar"
    /\ llamada.traza = <<"upsert", "count">>
    /\ respuesta[1] = FALLO
    /\ Len(estado["s1"].historial) >= 2

\* C15: with zero documents in the collection, a retrieval that reaches the
\* collection fails with the empty-collection error after count() and before
\* any query; in a generate call no completion is requested, the reply is the
\* generate-failure reply carrying that error, and the session stays empty.
C15_ColeccionVacia ==
    [][(/\ llamada'.op = "procesar_mensaje"
        /\ llamada'.intencion = "generar"
        /\ coleccion = {}
        /\ llamada'.traza # <<>>)
           => LET s == llamada'.sesion
              IN /\ llamada'.traza = <<"count">>
                 /\ llamada'.fallo = "generar"
                 /\ respuesta'
                        = <<FALLO, " Hubo un error al generar la rutina: ",
                            "La colección de ChromaDB está vacía. Ejecutá ingest.py primero para cargar las rutinas.">>
                 /\ estado' = estado
                 /\ estado'[s].rutina_actual = None]_vars

\* A generate call has just failed against the empty collection.
C15_Testigo ==
    /\ llamada.op = "procesar_mensaje"
    /\ llamada.intencion = "generar"
    /\ llamada.fallo = "generar"
    /\ llamada.traza = <<"count">>
    /\ coleccion = {}
    /\ estado["s1"].rutina_actual = None

\* C17: a procesar_mensaje call issues at most one completion call and at most
\* one upsert, also when that call fails.
C17_SinReintentos ==
    [][llamada'.op = "procesar_mensaje"
           => /\ Cardinality({i \in DOMAIN llamada'.traza : llamada'.traza[i] = "completion"}) <= 1
              /\ Cardinality({i \in DOMAIN llamada'.traza : llamada'.traza[i] = "upsert"}) <= 1
              /\ Cardinality({i \in DOMAIN llamada'.traza : llamada'.traza[i] = "query"}) <= 1]_vars

\* A generate call has just failed at its only completion call.
C17_Testigo ==
    /\ llamada.op = "procesar_mensaje"
    /\ llamada.fallo = "generar"
    /\ llamada.llm = [error |-> "completion"]
    /\ llamada.traza = <<"count", "count", "query", "completion">>

\* C20: every routine upserted by an approval passes validar_rutina, so a
\* routine that does not conform to the schema is never written to the store.
C20_ValidadaAntesDeGuardar ==
    [][(/\ llamada'.op = "procesar_mensaje"
        /\ llamada'.intencion = "aprobar"
        /\ llamada'.upserts # <<>>)
           => validar_rutina(estado[llamada'.sesion].rutina_actual)]_vars

\* C27: whenever a session is approved, the collection holds under the week
\* id of its rutina_actual a document whose text and metadata are the
\* encodings of that rutina_actual (weeks last written by the bulk load set
\* aside), also after further utterances to the approved session.
C27_DocumentoDeLaAprobada ==
    \A s \in Sesiones :
        estado[s].aprobada
            => LET r == estado[s].rutina_actual
                   sid == Get(r, "semana_id")
               IN \/ /\ "str" \in DOMAIN sid
                     /\ sid.str \in IdsSemana
                     /\ ultimo[sid.str].autor = "ingest"
                  \/ /\ "str" \in DOMAIN sid
                     /\ ~TextoFalla(r)
                     /\ ~MetadataFalla(r)
                     /\ \E d \in coleccion :
                            /\ d.id = sid.str
                            /\ d.documento = json_a_texto_enriquecido(r)
                            /\ d.metadata = extraer_metadata_para_chroma(r)

\* C28: a procesar_mensaje call on a session that had a routine leaves it
\* with a routine, a call on an approved session leaves it approved, and the
\* generate branch is only taken by a session with no routine.
C28_EstadoMonotono ==
    llamada.op = "procesar_mensaje"
        => /\ llamada.tenia_rutina => estado[llamada.sesion].rutina_actual # None
           /\ llamada.estaba_aprobada => estado[llamada.sesion].aprobada
           /\ llamada.intencion = "generar" => ~llamada.tenia_rutina

\* An approved session has just been edited with success and is still approved.
C28_Testigo ==
    /\ llamada.op = "procesar_mensaje"
    /\ llamada.intencion = "editar"
    /\ llamada.fallo = ""
    /\ llamada.estaba_aprobada
    /\ estado[llamada.sesion].aprobada
    /\ estado[llamada.sesion].n_ediciones = 1

\* C30: a procesar_mensaje call, successful or failing, leaves the session's
\* fecha_inicio as it was before the call, so that every session still holds
\* the date given to it on the day the sessions were created; and a call that
\* takes the generate branch gives the generator exactly that value as the
\* start date.
C30_FechaDeInicioFija ==
    llamada.op = "procesar_mensaje"
        => /\ estado[llamada.sesion].fecha_inicio = llamada.fecha_antes
           /\ \A s \in Sesiones : estado[s].fecha_inicio = estado[llamada.sesion].fecha_inicio
           /\ llamada.intencion = "generar" => llamada.fecha_pedida = <<llamada.fecha_antes>>
           /\ llamada.intencion # "generar" => llamada.fecha_pedida = <<>>

\* A session created on a Tuesday has just had a generate call fail: the
\* generator was given the Monday after, which is still the session's date.
C30_Testigo ==
    /\ llamada.op = "procesar_mensaje"
    /\ llamada.intencion = "generar"
    /\ llamada.fallo = "generar"
    /\ llamada.fecha_pedida = <<14>>
    /\ estado["s1"].fecha_inicio = 14

\* C31: a generate call issues its collaborator calls in the order collection
\* check, query, completion, and then parses; a retrieval that fails is
\* followed by no completion, a completion that fails by no parsing (the error
\* replied is the completion's), and a parse error is replied only after a
\* completion that returned a text. An edit call issues the completion alone,
\* and what it returns is the same whatever the collection holds, an empty
\* collection and a collection that fails included.
C31_OrdenDePasos ==
    llamada.op = "procesar_mensaje"
        => LET pasos == <<"count", "count", "query", "completion">>
               ErroresRecuperar ==
                   {"chromadb",
                    "La colección de ChromaDB está vacía. Ejecutá ingest.py primero para cargar las rutinas."}
               e == estado[llamada.sesion]
           IN /\ llamada.intencion = "generar"
                  => /\ Len(llamada.traza) <= 4
                     /\ llamada.traza = SubSeq(pasos, 1, Len(llamada.traza))
                     /\ llamada.fallo = "" => llamada.traza = pasos
                     /\ llamada.fallo = "generar"
                            => \/ /\ Len(llamada.traza) < 4
                                  /\ respuesta[3] \in ErroresRecuperar
                               \/ /\ llamada.traza = pasos
                                  /\ "error" \in DOMAIN llamada.llm
                                  /\ respuesta[3] = "groq"
                               \/ /\ llamada.traza = pasos
                                  /\ "cruda" \in DOMAIN llamada.llm
                                  /\ respuesta[3] = parsear_respuesta_llm(llamada.llm.cruda).error
              /\ (llamada.intencion = "editar" /\ llamada.tenia_rutina)
                  => /\ llamada.traza = <<"completion">>
                     /\ \A llm \in ResultadosLLM :
                            \E r \in {CasoEditar(llamada.mensaje, e, {}, "no", llm)} :
                                \A fallo \in FallosColeccion :
                                    \E q \in {CasoEditar(llamada.mensaje, e, coleccion, fallo, llm)} :
                                        /\ q.estado = r.estado
                                        /\ q.respuesta = r.respuesta
                                        /\ q.fallo = r.fallo
                                        /\ q.traza = r.traza
                                        /\ q.coleccion = coleccion

\* A generate call whose completion failed after the retrieval had succeeded.
C31_Testigo ==
    /\ llamada.op = "procesar_mensaje"
    /\ llamada.intencion = "generar"
    /\ llamada.fallo = "generar"
    /\ llamada.traza = <<"count", "count", "query", "completion">>
    /\ "error" \in DOMAIN llamada.llm
    /\ respuesta[3] = "groq"

\* C32: the history of every session always has even length and alternates
\* user and assistant turns, and every step either leaves a history as it was
\* or extends it at the end by one user turn holding the message followed by
\* one assistant turn; it is extended exactly by a generate, an edit of a
\* routine or an approval of a draft that succeeded.
C32_HistorialEnPares ==
    /\ [](\A s \in Sesiones :
              /\ Len(estado[s].historial) % 2 = 0
              /\ \A i \in 1..Len(estado[s].historial) :
                     estado[s].historial[i].role
                         = IF i % 2 = 1 THEN "user" ELSE "assistant")
    /\ [][\A s \in Sesiones :
              LET h == estado[s].historial
                  h2 == estado'[s].historial
                  exito == /\ llamada'.op = "procesar_mensaje"
                           /\ llamada'.sesion = s
                           /\ llamada'.fallo = ""
                           /\ \/ llamada'.intencion = "generar"
                              \/ llamada'.intencion = "editar" /\ llamada'.tenia_rutina
                              \/ /\ llamada'.intencion = "aprobar"
                                 /\ llamada'.tenia_rutina
                                 /\ ~llamada'.estaba_aprobada
              IN IF exito
                 THEN /\ Len(h2) = Len(h) + 2
                      /\ SubSeq(h2, 1, Len(h)) = h
                      /\ h2[Len(h) + 1] = Turno("user", llamada'.mensaje)
                      /\ h2[Len(h) + 2].role = "assistant"
                 ELSE h2 = h]_vars

\* A session whose history holds the pairs of a generate, an edit and an approval.
C32_Testigo ==
    /\ Len(estado["s1"].historial) = 6
    /\ estado["s1"].aprobada
    /\ estado["s1"].n_ediciones = 1
    /\ llamada.intencion = "aprobar"

\* C34: when the save of an approval reports failure, the collection holds
\* after the call exactly the documents it held before it.
C34_FalloDeGuardadoSinCambio ==
    [][(/\ llamada'.op = "procesar_mensaje"
        /\ llamada'.intencion = "aprobar"
        /\ llamada'.fallo = "guardar")
           => coleccion' = coleccion]_vars

\* C35: no step of approvals, ingests and generate calls (queries) lowers the
\* number of documents; a step that upserts raises it by one when the id was
\* not stored and leaves it the same when it was, a step that does not upsert
\* leaves the collection as it was; and every stored document has one id, equal
\* to the semana_id of its metadata.
C35_ColeccionSoloCrece ==
    /\ [](\A d \in coleccion :
              /\ d.metadata.semana_id = JStr(d.id)
              /\ \A d2 \in coleccion : d2.id = d.id => d2 = d)
    /\ [][/\ Count(coleccion') >= Count(coleccion)
          /\ Len(llamada'.upserts) <= 1
          /\ llamada'.upserts = <<>> => coleccion' = coleccion
          /\ llamada'.upserts # <<>>
                 => Count(coleccion')
                        = IF \E d \in coleccion : d.id = llamada'.upserts[1]
                          THEN Count(coleccion)
                          ELSE Count(coleccion) + 1]_vars

\* An approval has just written under an id that was already stored, next to
\* another document.
C35_Testigo ==
    /\ llamada.op = "procesar_mensaje"
    /\ llamada.intencion = "aprobar"
    /\ llamada.upserts # <<>>
    /\ ultimo[llamada.upserts[1]].reemplazo
    /\ Count(coleccion) = 2

-----------------------------------------------------------------------------
(* Properties of sessions that share the collection (SpecSesiones).        *)

\* C18: a week id is only ever upserted by the session that generated it: no
\* approval replaces a document that another session's approval, or an
\* ingest, wrote under the same week id.
C18_SoloLaSesionQueGenero ==
    [][(llamada'.op = "procesar_mensaje" /\ llamada'.upserts # <<>>)
           => LET id == llamada'.upserts[1]
              IN ultimo[id].doc = <<>> \/ ultimo[id].autor = llamada'.sesion]_vars

\* C19: a procesar_mensaje call on one session leaves every field of every
\* other session unchanged, and an ingest leaves every session unchanged; the
\* collection is the only thing the sessions share.
C19_SesionesAisladas ==
    [][/\ llamada'.op = "procesar_mensaje"
              => \A t \in Sesiones \ {llamada'.sesion} : estado'[t] = estado[t]
       /\ llamada'.op = "cargar_semana" => estado' = estado]_vars

\* Session s1 has just completed a call while session s2 holds an approved
\* routine and its own history.
C19_Testigo ==
    /\ llamada.op = "procesar_mensaje"
    /\ llamada.sesion = "s1"
    /\ llamada.fallo = ""
    /\ estado["s1"].rutina_actual = RutinaA
    /\ estado["s2"].rutina_actual = RutinaB
    /\ estado["s2"].aprobada
    /\ ~estado["s1"].aprobada
    /\ Len(estado["s2"].historial) = 4

-----------------------------------------------------------------------------
(* Properties of the intent classifier (SpecIntencion).                    *)

\* C8: detectar_intencion returns "aprobar" for every utterance whose
\* lowercased text contains an approval keyword, with or without a routine
\* and with or without an edit keyword.
C8_AprobarTienePrioridad ==
    (/\ salida # <<>>
     /\ \E k \in 1..Len(palabras_aprobar) :
            \E i \in 1..(Len(entrada.mensaje) - Len(palabras_aprobar[k]) + 1) :
                SubSeq(Lower(entrada.mensaje), i, i + Len(palabras_aprobar[k]) - 1)
                    = palabras_aprobar[k])
        => salida = <<"aprobar">>

\* An utterance with a capital letter that holds an approval keyword and an
\* edit keyword, classified with a routine present.
C8_Testigo ==
    /\ salida = <<"aprobar">>
    /\ entrada.tiene_rutina
    /\ entrada.mensaje = <<"o", "K", "m", "á", "s">>

\* C9: for an utterance with no approval keyword, detectar_intencion returns
\* "generar" when no routine exists and "editar" when a routine exists, with
\* or without edit keywords.
C9_SinPalabraDeAprobar ==
    (/\ salida # <<>>
     /\ \A k \in 1..Len(palabras_aprobar) :
            \A i \in 1..(Len(entrada.mensaje) - Len(palabras_aprobar[k]) + 1) :
                SubSeq(Lower(entrada.mensaje), i, i + Len(palabras_aprobar[k]) - 1)
                    # palabras_aprobar[k])
        => salida = <<IF entrada.tiene_rutina THEN "editar" ELSE "generar">>

\* An utterance with neither kind of keyword, classified with a routine present.
C9_Testigo ==
    /\ salida = <<"editar">>
    /\ entrada.tiene_rutina
    /\ entrada.mensaje = <<"s", "o", "s">>

-----------------------------------------------------------------------------
(* Properties of the similarity search (SpecRecuperar).                    *)

\* C16: against a collection of n >= 1 documents and without a filter,
\* recuperar_rutinas_similares asked for k candidates returns no error and
\* exactly min(k, n) candidates, which are the nearest ones in the store's
\* ascending-distance order.
C16_LimiteDeResultados ==
    salida # <<>>
        => LET n == Len(entrada.ranking)
               k == entrada.n_resultados
           IN /\ "error" \notin DOMAIN salida[1]
              /\ Len(salida[1].rutinas) = IF k <= n THEN k ELSE n
              /\ \A i \in 1..Len(salida[1].rutinas) :
                     salida[1].rutinas[i].semana_id = entrada.ranking[i].id
              /\ \A i \in 1..(Len(salida[1].rutinas) - 1) :
                     salida[1].rutinas[i].similitud >= salida[1].rutinas[i + 1].similitud

\* Ten candidates were requested from a collection of two documents, and two
\* came back.
C16_Testigo ==
    /\ salida # <<>>
    /\ entrada.n_resultados = 10
    /\ Len(entrada.ranking) = 2
    /\ "rutinas" \in DOMAIN salida[1]
    /\ Len(salida[1].rutinas) = 2

-----------------------------------------------------------------------------
(* Properties of the routine codec (SpecCodec).                            *)

C22_SinNoneNiEtiquetaVacia ==
    (salida # <<>> /\ ~salida[1].texto_falla)
        => \A i \in 1..Len(salida[1].texto) :
               LET linea == salida[1].texto[i]
               IN /\ \A k \in 1..Len(linea) : linea[k] # "None"
                  /\ ~(/\ Len(linea) = 1
                       /\ linea[1] \in {"Músculos:", "Olímpicos:", "Intensidad:",
                                        "Patrón:", "Principiante:"})

-----------------------------------------------------------------------------
(* Properties of the escape repair (SpecEscapes).                          *)

\* C23: a payload whose string value holds an invalid escape such as \q, and
\* whose string is otherwise well formed, is accepted by the JSON parser after
\* the repair.
C23_EscapesReparados ==
    (/\ salida # <<>>
     /\ \E k \in 1..Len(Tokens(entrada, 1)) : Tokens(entrada, 1)[k] = "x"
     /\ \A k \in 1..Len(Tokens(entrada, 1)) : Tokens(entrada, 1)[k] # "a")
        => salida[1].valido

\* C36: a payload that the JSON parser accepts before the repair is accepted
\* after it with the same string value, and repairing the repaired payload
\* again changes nothing.
C36_ReparacionConservaValidos ==
    (salida # <<>> /\ CuerpoValido(entrada))
        => /\ salida[1].valido
           /\ Decodificar(salida[1].reparado, 1) = Decodificar(entrada, 1)
           /\ reparar_escapes(salida[1].reparado) = salida[1].reparado

-----------------------------------------------------------------------------
(* Properties of the completion parser (SpecParser).                       *)

\* C24: parsear_respuesta_llm raises the missing-message error when no
\* MENSAJE: is followed by a JSON: (so also when the text has no JSON: at
\* all); otherwise the missing-JSON error when no JSON: is followed by a
\* closed fenced block or by an opening brace; otherwise it takes the fenced
\* block when there is one and the unfenced span when there is none, raises
\* the decode error when the repaired span is not valid JSON, and returns the
\* message with the decoded payload, whatever its shape, when it is.
C24_ErroresDelParser ==
    salida # <<>>
        => LET t == entrada
               r == salida[1]
               n == Len(t)
               HayPar == \E i \in 1..n : \E j \in (i + 1)..n :
                             t[i] = Lit("MENSAJE:") /\ t[j] = Lit("JSON:")
               Cercados == {k \in 1..n :
                               /\ t[k] = Lit("JSON:")
                               /\ k + 3 <= n
                               /\ EsCerca(t[k + 1])
                               /\ EsObjeto(t[k + 2])
                               /\ \E m \in (k + 2)..(n - 1) : EsObjeto(t[m]) /\ EsCerca(t[m + 1])}
               Planos == {k \in 1..(n - 1) : t[k] = Lit("JSON:") /\ EsObjeto(t[k + 1])}
               Valido(o) == CuerpoValido(reparar_escapes(o.cuerpo))
           IN /\ ~HayPar
                  => r = [error |-> "No se encontró el campo MENSAJE en la respuesta del LLM"]
              /\ (HayPar /\ Cercados = {} /\ Planos = {})
                  => r = [error |-> "No se encontró el campo JSON en la respuesta del LLM"]
              /\ (HayPar /\ Cercados # {})
                  => LET k == Primero(Cercados)
                     IN IF EsCerca(t[k + 3]) /\ Valido(t[k + 2])
                        THEN /\ DOMAIN r = {"mensaje", "rutina"}
                             /\ r.rutina = CargarJson(<<t[k + 2]>>).rutina
                        ELSE r = [error |-> "JSONDecodeError"]
              /\ (HayPar /\ Cercados = {} /\ Planos # {})
                  => LET k == Primero(Planos)
                     IN IF (\A m \in (k + 2)..n : ~EsObjeto(t[m])) /\ Valido(t[k + 1])
                        THEN /\ DOMAIN r = {"mensaje", "rutina"}
                             /\ r.rutina = CargarJson(<<t[k + 1]>>).rutina
                        ELSE r = [error |-> "JSONDecodeError"]
              /\ "mensaje" \in DOMAIN r
                  => \E i \in 1..n : \E j \in (i + 1)..n :
                         /\ t[i] = Lit("MENSAJE:")
                         /\ t[j] = Lit("JSON:")
                         /\ r.mensaje = SubSeq(t, i + 1, j - 1)
                         /\ \A x \in (i + 1)..(j - 1) : t[x] # Lit("JSON:")
                         /\ \A x \in 1..(i - 1) : t[x] # Lit("MENSAJE:")

\* A text with a fenced block and, after it, an unfenced object: the payload
\* is the fenced one, and it is returned although it is no routine.
C24_Testigo ==
    /\ entrada = <<Lit("MENSAJE:"), Lit("hola"),
                   Lit("JSON:"), Lit("'''json"), ObjetoB, Lit("'''"),
                   Lit("JSON:"), ObjetoA>>
    /\ salida = <<[mensaje |-> <<Lit("hola")>>, rutina |-> [a |-> <<"n">>]]>>
    /\ ~validar_rutina(salida[1].rutina)

-----------------------------------------------------------------------------
(* Properties of the start date (SpecLunes).                               *)

\* C25: obtener_proximo_lunes returns a Monday strictly after today: with w
\* the weekday of today (0 = Monday) the offset added is in 1..7 and
\* (w + offset) mod 7 = 0, and on a Monday the offset is 7.
C25_LunesPosterior ==
    salida # <<>>
        => LET w == entrada % 7
               offset == salida[1] - entrada
           IN /\ offset \in 1..7
              /\ (w + offset) % 7 = 0
              /\ salida[1] % 7 = 0
              /\ w = 0 => offset = 7

\* Today is the Monday of the second week and the result is the Monday after.
C25_Testigo ==
    /\ entrada = 7
    /\ salida = <<14>>

-----------------------------------------------------------------------------
(* Properties of the bulk load (SpecIngesta).                              *)

\* C26: after cargar_todas_las_semanas, whatever errors single files had,
\* every well-formed file of the folder has its week in the collection, and
\* the number the function returns is the number of files it loaded.
C26_ErroresNoDetienen ==
    salida # <<>>
        => LET BienFormados == {i \in 1..Len(entrada.glob) :
                                   /\ entrada.glob[i].archivo.existe
                                   /\ "objeto" \in DOMAIN entrada.glob[i].archivo.json}
           IN /\ \A i \in BienFormados :
                     \E d \in coleccion :
                         d.id = entrada.glob[i].archivo.json.objeto.semana_id.str
              /\ ~salida[1].excepcion => salida[1].retorno = Cardinality(BienFormados)

-----------------------------------------------------------------------------
(* Properties of the program over a collection that is never loaded (SpecVacia). *)

\* C33: while the collection is empty and nothing is ingested, every generate
\* attempt fails before the completion call, whatever the completion would
\* have returned, so every session stays without routine, history, approval
\* or edits, and the collection stays empty.
C33_TodoVacio ==
    /\ coleccion = {}
    /\ \A s \in Sesiones :
           /\ estado[s].rutina_actual = None
           /\ estado[s].historial = <<>>
           /\ ~estado[s].aprobada
           /\ estado[s].n_ediciones = 0
    /\ llamada.op = "procesar_mensaje"
           => /\ llamada.upserts = <<>>
              /\ llamada.intencion = "generar"
                     => /\ llamada.fallo = "generar"
                        /\ llamada.traza \in {<<>>, <<"count">>}

\* The second session asked for a routine, the collection answered the count,
\* and the completion would have returned a routine.
C33_Testigo ==
    /\ llamada.op = "procesar_mensaje"
    /\ llamada.sesion = "s2"
    /\ llamada.intencion = "generar"
    /\ llamada.traza = <<"count">>
    /\ "cruda" \in DOMAIN llamada.llm
    /\ "objeto" \in DOMAIN llamada.llm.cruda.json
    /\ coleccion = {}
    /\ estado["s2"].rutina_actual = None

-----------------------------------------------------------------------------
(* Properties of the session with its reset button (SpecReinicio). *)

\* C37: pressing "Nueva rutina" leaves the session in a fresh state (empty
\* history, no routine, not approved, no edits, the start date of the day of
\* the press) whatever it held before, and leaves every document of the
\* collection, those approved in the discarded session included, as it was.
C37_NuevaRutinaReinicia ==
    [][llamada'.op = "nueva_rutina"
           => LET s == llamada'.sesion
              IN /\ DOMAIN estado'[s]
                        = {"historial", "rutina_actual", "aprobada", "fecha_inicio", "n_ediciones"}
                 /\ estado'[s].historial = <<>>
                 /\ estado'[s].rutina_actual = None
                 /\ estado'[s].aprobada = FALSE
                 /\ estado'[s].n_ediciones = 0
                 /\ \E hoy \in DiasHoy : estado'[s].fecha_inicio = obtener_proximo_lunes(hoy)
                 /\ \A t \in Sesiones \ {s} : estado'[t] = estado[t]
                 /\ coleccion' = coleccion]_vars

\* The button has just discarded a session that had approved a routine, and
\* the document of that approval is still stored.
C37_Testigo ==
    /\ llamada.op = "nueva_rutina"
    /\ llamada.estaba_aprobada
    /\ estado["s1"].historial = <<>>
    /\ \E d \in coleccion : ultimo[d.id].autor = "s1" /\ ultimo[d.id].doc = <<d>>

-----------------------------------------------------------------------------
(* Properties of the display value of a WOD (SpecWod). *)

\* C38: the display value of a WOD is that of duracion when duracion is set,
\* else that of rondas when rondas is set, else that of time_cap when time_cap
\* is set, else empty, a field being set when it is present and neither null,
\* zero nor empty; the text encoder and the Markdown renderer give the same
\* value for every WOD.
C38_PrioridadDelWod ==
    salida # <<>>
        => LET puesto(k) == k \in DOMAIN entrada
                               /\ entrada[k] \notin {JNull, JInt(0), JStr("")}
               esperado ==
                   IF puesto("duracion") THEN <<ToString(entrada["duracion"].int), "'">>
                   ELSE IF puesto("rondas") THEN <<ToString(entrada["rondas"].int), "rounds">>
                   ELSE IF puesto("time_cap")
                        THEN <<"TC", ToString(entrada["time_cap"].int), "'">>
                   ELSE <<"">>
           IN /\ salida[1].markdown = esperado
              /\ salida[1].ingest = esperado

\* A WOD without duracion, with rondas zero and with a time_cap: both show
\* the time_cap.
C38_Testigo ==
    /\ salida # <<>>
    /\ DOMAIN entrada = {"rondas", "time_cap"}
    /\ entrada["rondas"] = JInt(0)
    /\ entrada["time_cap"] = JInt(2)
    /\ salida[1].markdown = <<"TC", "2", "'">>
    /\ salida[1].ingest = <<"TC", "2", "'">>

-----------------------------------------------------------------------------
(* Properties of the context formatter (SpecContexto). *)

-----------------------------------------------------------------------------
(* Properties of the start-up load (SpecArranque). *)

\* C40: a call of inicializar_si_vacia on a collection that holds a document
\* returns 0 and leaves the collection as it was; on an empty collection it
\* does what cargar_todas_las_semanas does on the folder; and after a call that
\* stored at least one routine every later call returns 0 and leaves the
\* collection as it was.
C40_CargaSoloSiVacia ==
    \A j \in 1..Len(salida) :
        /\ Count(salida[j].antes) > 0
               => /\ salida[j].retorno = 0
                  /\ ~salida[j].excepcion
                  /\ salida[j].despues = salida[j].antes
        /\ Count(salida[j].antes) = 0
               => \E r \in {cargar_todas_las_semanas({}, entrada)} :
                      /\ salida[j].retorno = r.retorno
                      /\ salida[j].excepcion = r.excepcion
                      /\ salida[j].despues = r.coleccion
        /\ \A i \in 1..(j - 1) :
               Count(salida[i].despues) > Count(salida[i].antes)
                   => /\ salida[j].retorno = 0
                      /\ ~salida[j].excepcion
                      /\ salida[j].despues = salida[i].despues

\* The first start loaded two routines from the folder and the second start
\* returned 0.
C40_Testigo ==
    /\ Len(salida) = 2
    /\ salida[1].antes = {}
    /\ salida[1].retorno = 2
    /\ Count(salida[1].despues) = 2
    /\ salida[2].retorno = 0
    /\ coleccion = salida[1].despues

====
